---- MODULE Spec2Model ----
(***************************************************************************)
(* Core-X threat detection and enforcement pipeline: the two-tier ban      *)
(* store (BanningService over a Redis hash per identity kind and a         *)
(* Supabase table per identity kind), and the admission middlewares that   *)
(* read and write it.                                                      *)
(*                                                                         *)
(* Every asynchronous store call is a step of its own: a call made by      *)
(* banIp takes effect (or fails) at some later instant, and Promise.all    *)
(* settles once its members have.                                          *)
(***************************************************************************)
EXTENDS Integers, Sequences, FiniteSets, TLC

VARIABLES
    redis,      \* fast tier: Redis hash name -> (field -> reason)
    db,         \* durable tier: table name -> (identity column -> reason)
    ops,        \* every BanningService call made so far, with its progress
    req,        \* the request a middleware is handling
    lastIndex,  \* RegExp.lastIndex of each catalog pattern object
    lastCheck,  \* the result the last isBanned-style read returned
    deep,       \* the deepScan call in progress: its stack of object frames
    cluster,    \* the primary process and the worker process of each slot
    stats       \* the lock of the statistics sync and each worker's place in it

vars == <<redis, db, ops, req, lastIndex, lastCheck, deep, cluster, stats>>

(***************************************************************************)
(* Bounds of the model.                                                    *)
(***************************************************************************)
\* BanningService calls made in one behaviour.
MaxCalls == 2

(***************************************************************************)
(* Identities and reasons the calls are made with.                         *)
(***************************************************************************)
MappedPrefix == "::ffff:"

BaseIps == {"1.2.3.4"}

Ips == BaseIps \cup {MappedPrefix \o x : x \in BaseIps}

UserIds == {"u-1"}

Tokens == {"sig-1"}

\* '' is what the admin controller passes when no reason is given.
Reasons == {"", "test"}

Imported == "Imported"

REDIS_HASH_IPS == "banned:ips"

REDIS_HASH_USERS == "banned:users"

REDIS_HASH_TOKENS == "revoked:tokens"

Hashes == {REDIS_HASH_IPS, REDIS_HASH_USERS, REDIS_HASH_TOKENS}

TABLE_IPS == "blacklisted_ips"

TABLE_USERS == "banned_users"

TABLE_TOKENS == "revoked_tokens"

Tables == {TABLE_IPS, TABLE_USERS, TABLE_TOKENS}

\* The table each service method pairs with a hash.
TableOf(hash) ==
    CASE hash = REDIS_HASH_IPS -> TABLE_IPS
      [] hash = REDIS_HASH_USERS -> TABLE_USERS
      [] hash = REDIS_HASH_TOKENS -> TABLE_TOKENS

(***************************************************************************)
(* Maps (a Redis hash, the rows of a table): functions on the keys present.*)
(***************************************************************************)
EmptyMap == [k \in {} |-> ""]

MapPutKeepFirst(m, k, v) ==
    [x \in DOMAIN m \cup {k} |-> IF x \in DOMAIN m THEN m[x] ELSE v]

\* HSET / upsert with onConflict on the key: the value is overwritten.
MapPut(m, k, v) == [x \in DOMAIN m \cup {k} |-> IF x = k THEN v ELSE m[x]]

\* HDEL / delete().eq(key): removing an absent key changes nothing.
MapDel(m, k) == [x \in DOMAIN m \ {k} |-> m[x]]

\* HMSET: every field of src is written over dst, no field is removed.
\* A bulk write that replaces the hash or table by what it is given.
MapReplace(dst, src) == src

MapMerge(dst, src) ==
    [x \in DOMAIN dst \cup DOMAIN src |-> IF x \in DOMAIN src THEN src[x] ELSE dst[x]]

(***************************************************************************)
(* ip.startsWith('::ffff:') ? ip.substring(7) : ip                         *)
(***************************************************************************)
startsWith(s, prefix) ==
    /\ Len(s) >= Len(prefix)
    /\ SubSeq(s, 1, Len(prefix)) = prefix

substring(s, from) == SubSeq(s, from + 1, Len(s))

normalizedIpIdentity(ip) == ip

normalizedIp(ip) ==
    IF startsWith(ip, MappedPrefix) THEN substring(ip, Len(MappedPrefix)) ELSE ip

(***************************************************************************)
(* The reads of the fast tier.                                             *)
(***************************************************************************)
hexists(hash, field) == field \in DOMAIN redis[hash]

isIpBanned(ip) == hexists(REDIS_HASH_IPS, normalizedIp(ip))

isUserBannedDurable(userId) == userId \in DOMAIN db[TABLE_USERS]

isUserBanned(userId) == hexists(REDIS_HASH_USERS, userId)

isTokenRevoked(token) == hexists(REDIS_HASH_TOKENS, token)

getBlacklistedIps == redis[REDIS_HASH_IPS]

getBannedUsers == redis[REDIS_HASH_USERS]

getRevokedTokens == redis[REDIS_HASH_TOKENS]

(***************************************************************************)
(* A BanningService call in progress.  fast and durable are the states of  *)
(* the two promises handed to Promise.all, result the state of the promise *)
(* the method returned to its caller.                                      *)
(***************************************************************************)
NoData == [t \in Tables |-> [ok |-> FALSE, rows |-> EmptyMap]]

NewOp(fn, hash, key, arg, reason, caller) ==
    [ fn |-> fn, hash |-> hash, key |-> key, arg |-> arg, reason |-> reason,
      caller |-> caller,
      fast |-> "pending", durable |-> "pending", result |-> "pending",
      prior |-> {i \in DOMAIN ops : ops[i].result # "pending"},
      pc |-> "call", data |-> NoData, failed |-> FALSE ]

BanFns == {"banIp", "banUser", "revokeToken"}

UnbanFns == {"unbanIp", "unbanUser", "unrevokeToken"}

Call(op) ==
    /\ Len(ops) < MaxCalls
    /\ ops' = Append(ops, op)

\* banIp: lines 114-120, both store calls are issued before the await.
banIp(ip, reason, caller) ==
    /\ Call(NewOp("banIp", REDIS_HASH_IPS, normalizedIp(ip), ip, reason, caller))
    /\ UNCHANGED <<redis, db, lastCheck, deep, cluster, stats>>

unbanIp(ip) ==
    /\ Call(NewOp("unbanIp", REDIS_HASH_IPS, normalizedIp(ip), ip, "", "admin"))
    /\ UNCHANGED <<redis, db, req, lastIndex, lastCheck, deep, cluster, stats>>

banUser(userId, reason) ==
    /\ Call(NewOp("banUser", REDIS_HASH_USERS, userId, userId, reason, "admin"))
    /\ UNCHANGED <<redis, db, req, lastIndex, lastCheck, deep, cluster, stats>>

unbanUser(userId) ==
    /\ Call(NewOp("unbanUser", REDIS_HASH_USERS, userId, userId, "", "admin"))
    /\ UNCHANGED <<redis, db, req, lastIndex, lastCheck, deep, cluster, stats>>

revokeToken(token, reason) ==
    /\ Call(NewOp("revokeToken", REDIS_HASH_TOKENS, token, token, reason, "admin"))
    /\ UNCHANGED <<redis, db, req, lastIndex, lastCheck, deep, cluster, stats>>

unrevokeToken(token) ==
    /\ Call(NewOp("unrevokeToken", REDIS_HASH_TOKENS, token, token, "", "admin"))
    /\ UNCHANGED <<redis, db, req, lastIndex, lastCheck, deep, cluster, stats>>

(***************************************************************************)
(* The store calls taking effect.  A Redis command either is applied and   *)
(* replies, or its promise rejects.  A Supabase query never rejects: it    *)
(* either is applied, or resolves to a result whose `error` is set (the    *)
(* shape syncToDb tests with `r.error`).                                   *)
(***************************************************************************)
RedisOutcomes == {"ok", "rejected"}

DbOutcomes == {"ok", "error"}

\* redis.hset(hash, key, reason)
hset(i) ==
    /\ ops[i].fn \in BanFns
    /\ ops[i].fast = "pending"
    /\ \E out \in RedisOutcomes :
        /\ ops' = [ops EXCEPT ![i].fast = out]
        /\ redis' = IF out = "ok"
                    THEN [redis EXCEPT ![ops[i].hash] = MapPut(@, ops[i].key, ops[i].reason)]
                    ELSE redis
    /\ UNCHANGED <<db, req, lastIndex, lastCheck, deep, cluster, stats>>

\* redis.hdel(hash, key)
hdel(i) ==
    /\ ops[i].fn \in UnbanFns
    /\ ops[i].fast = "pending"
    /\ \E out \in RedisOutcomes :
        /\ ops' = [ops EXCEPT ![i].fast = out]
        /\ redis' = IF out = "ok"
                    THEN [redis EXCEPT ![ops[i].hash] = MapDel(@, ops[i].key)]
                    ELSE redis
    /\ UNCHANGED <<db, req, lastIndex, lastCheck, deep, cluster, stats>>

\* adminDB.from(table).upsert({key, reason}, { onConflict: key })
upsert(i) ==
    /\ ops[i].fn \in BanFns
    /\ ops[i].durable = "pending"
    /\ \E out \in DbOutcomes :
        /\ ops' = [ops EXCEPT ![i].durable = out]
        /\ db' = IF out = "ok"
                 THEN [db EXCEPT ![TableOf(ops[i].hash)] = MapPut(@, ops[i].key, ops[i].reason)]
                 ELSE db
    /\ UNCHANGED <<redis, req, lastIndex, lastCheck, deep, cluster, stats>>

\* adminDB.from(table).delete().eq(key, value)
deleteEq(i) ==
    /\ ops[i].fn \in UnbanFns
    /\ ops[i].durable = "pending"
    /\ \E out \in DbOutcomes :
        /\ ops' = [ops EXCEPT ![i].durable = out]
        /\ db' = IF out = "ok"
                 THEN [db EXCEPT ![TableOf(ops[i].hash)] = MapDel(@, ops[i].key)]
                 ELSE db
    /\ UNCHANGED <<redis, req, lastIndex, lastCheck, deep, cluster, stats>>

(***************************************************************************)
(* await Promise.all([...]) inside try/catch: it rejects as soon as one    *)
(* member rejects (the method logs and re-throws), and fulfils once every  *)
(* member has fulfilled.  A query that resolved to { error } has fulfilled.*)
(***************************************************************************)
AnyRejected(o) == o.fast = "rejected" \/ o.durable = "rejected"

AllFulfilled(o) == o.fast = "ok" /\ o.durable \in {"ok", "error"}

SettledAs(o) ==
    IF AnyRejected(o) THEN "rejected"
    ELSE IF AllFulfilled(o) THEN "resolved"
    ELSE "pending"

PromiseAll(i) ==
    /\ ops[i].fn \in BanFns \cup UnbanFns
    /\ ops[i].result = "pending"
    /\ SettledAs(ops[i]) # "pending"
    /\ ops' = [ops EXCEPT ![i].result = SettledAs(ops[i]), ![i].pc = "done"]
    /\ UNCHANGED <<redis, db, req, lastIndex, lastCheck, deep, cluster, stats>>

(***************************************************************************)
(* restoreFromDb: three selects awaited one after the other, then one      *)
(* pipeline of HMSETs.  Only `data` is read from a select's result, and    *)
(* the whole body sits in a try/catch that logs: the returned promise      *)
(* always fulfils.                                                         *)
(***************************************************************************)
restoreFromDb ==
    /\ Call([NewOp("restoreFromDb", "", "", "", "", "startServer")
                EXCEPT !.durable = "none", !.pc = TABLE_IPS])
    /\ UNCHANGED <<redis, db, req, lastIndex, lastCheck, deep, cluster, stats>>

NextSelect(table) ==
    CASE table = TABLE_IPS -> TABLE_USERS
      [] table = TABLE_USERS -> TABLE_TOKENS
      [] table = TABLE_TOKENS -> "exec"

\* const { data } = await adminDB.from(table).select(...)
select(i) ==
    /\ ops[i].fn = "restoreFromDb"
    /\ ops[i].pc \in Tables
    /\ \E out \in DbOutcomes :
        ops' = [ops EXCEPT ![i] =
            CASE out = "ok" ->
                    [@ EXCEPT !.data[ops[i].pc] = [ok |-> TRUE, rows |-> db[ops[i].pc]],
                              !.pc = NextSelect(ops[i].pc)]
              [] out = "error" ->
                    [@ EXCEPT !.pc = NextSelect(ops[i].pc)]]
    /\ UNCHANGED <<redis, db, req, lastIndex, lastCheck, deep, cluster, stats>>

\* r.reason || 'Imported'
ReasonOrImported(reason) == IF reason = "" THEN Imported ELSE reason

\* if (rows && rows.length > 0) { ...; pipeline.hmset(hash, map) }
RestoredRowsSkipTokens(d, hash) ==
    IF hash # REDIS_HASH_TOKENS /\ d[TableOf(hash)].ok
    THEN [k \in DOMAIN d[TableOf(hash)].rows |-> ReasonOrImported(d[TableOf(hash)].rows[k])]
    ELSE EmptyMap

RestoredRows(d, hash) ==
    IF d[TableOf(hash)].ok
    THEN [k \in DOMAIN d[TableOf(hash)].rows |-> ReasonOrImported(d[TableOf(hash)].rows[k])]
    ELSE EmptyMap

\* await pipeline.exec()
pipelineExec(i) ==
    /\ ops[i].fn = "restoreFromDb"
    /\ ops[i].pc = "exec"
    /\ \E out \in RedisOutcomes :
        /\ ops' = [ops EXCEPT ![i].pc = "done", ![i].fast = out,
                              ![i].failed = (out = "rejected"),
                              ![i].result = "resolved"]
        /\ redis' = IF out = "ok"
                    THEN [h \in Hashes |-> MapMerge(redis[h], RestoredRows(ops[i].data, h))]
                    ELSE redis
    /\ UNCHANGED <<db, req, lastIndex, lastCheck, deep, cluster, stats>>

(***************************************************************************)
(* A caller awaiting isIpBanned / isUserBanned / isTokenRevoked gets the   *)
(* reply of HEXISTS.                                                       *)
(***************************************************************************)
Checked(fn, arg) ==
    CASE fn = "isIpBanned" -> isIpBanned(arg)
      [] fn = "isUserBanned" -> isUserBanned(arg)
      [] fn = "isTokenRevoked" -> isTokenRevoked(arg)

hexistsReply(fn, arg) ==
    /\ lastCheck' = [fn |-> fn, arg |-> arg, result |-> Checked(fn, arg),
                     turn |-> 1 - lastCheck.turn]
    /\ UNCHANGED <<redis, db, ops, req, lastIndex, deep, cluster, stats>>

(***************************************************************************)
(* The threat catalog and the scanner.  A string is a sequence of words,   *)
(* each one position long; a word stands for a piece of text that matches  *)
(* the patterns listed for it and no other.  The patterns written with the *)
(* g flag keep their lastIndex between calls of test().                    *)
(***************************************************************************)
SEVERITY_LEVELS ==
    [ CRITICAL |-> [score |-> 100, action |-> "BLOCK"],
      HIGH     |-> [score |-> 75,  action |-> "BLOCK"],
      MEDIUM   |-> [score |-> 50,  action |-> "WARN"],
      LOW      |-> [score |-> 25,  action |-> "LOG"] ]

Pattern(key, severity, global) ==
    [key |-> key, severity |-> severity, global |-> global]

\* In the order of the object literal, which is the order scan() walks it.
\* A catalog that lists its LOW signature first.
BotsFirstCatalog ==
    << Pattern("BAD_BOTS", "LOW", FALSE),
       Pattern("SQL_INJECTION", "CRITICAL", FALSE),
       Pattern("SQL_BLIND", "CRITICAL", FALSE),
       Pattern("SQL_LOGIC", "HIGH", FALSE),
       Pattern("XSS_SCRIPT", "CRITICAL", TRUE),
       Pattern("XSS_EVENTS", "HIGH", TRUE),
       Pattern("XSS_VECTORS", "CRITICAL", TRUE),
       Pattern("XSS_HTML_TAGS", "HIGH", TRUE),
       Pattern("PROTOTYPE_POLLUTION", "CRITICAL", TRUE),
       Pattern("COMMAND_INJECTION", "CRITICAL", TRUE),
       Pattern("PATH_TRAVERSAL", "CRITICAL", FALSE),
       Pattern("NOSQL_INJECTION", "HIGH", TRUE),
       Pattern("XXE_INJECTION", "HIGH", FALSE),
       Pattern("SUSPICIOUS_UA", "HIGH", FALSE) >>

SECURITY_PATTERNS ==
    << Pattern("SQL_INJECTION", "CRITICAL", FALSE),
       Pattern("SQL_BLIND", "CRITICAL", FALSE),
       Pattern("SQL_LOGIC", "HIGH", FALSE),
       Pattern("XSS_SCRIPT", "CRITICAL", TRUE),
       Pattern("XSS_EVENTS", "HIGH", TRUE),
       Pattern("XSS_VECTORS", "CRITICAL", TRUE),
       Pattern("XSS_HTML_TAGS", "HIGH", TRUE),
       Pattern("PROTOTYPE_POLLUTION", "CRITICAL", TRUE),
       Pattern("COMMAND_INJECTION", "CRITICAL", TRUE),
       Pattern("PATH_TRAVERSAL", "CRITICAL", FALSE),
       Pattern("NOSQL_INJECTION", "HIGH", TRUE),
       Pattern("XXE_INJECTION", "HIGH", FALSE),
       Pattern("SUSPICIOUS_UA", "HIGH", FALSE),
       Pattern("BAD_BOTS", "LOW", FALSE) >>

PatternIndex(key) ==
    CHOOSE n \in DOMAIN SECURITY_PATTERNS : SECURITY_PATTERNS[n].key = key

GlobalPatternKeys ==
    {SECURITY_PATTERNS[n].key :
        n \in {m \in DOMAIN SECURITY_PATTERNS : SECURITY_PATTERNS[m].global}}

\* The words each regular expression matches.
Words(key) ==
    CASE key = "SQL_INJECTION" -> {"UNION"}
      [] key = "SQL_BLIND" -> {"SLEEP("}
      [] key = "SQL_LOGIC" -> {"OR '1'='1"}
      [] key = "XSS_SCRIPT" -> {"<script>alert('xss')</script>"}
      [] key = "XSS_EVENTS" -> {"onerror='"}
      [] key = "XSS_VECTORS" -> {"javascript:"}
      [] key = "XSS_HTML_TAGS" -> {"<iframe>"}
      [] key = "PROTOTYPE_POLLUTION" -> {"\"__proto__\":"}
      [] key = "COMMAND_INJECTION" -> {"/bin/sh"}
      [] key = "PATH_TRAVERSAL" -> {"../"}
      [] key = "NOSQL_INJECTION" -> {"\"$ne\":"}
      [] key = "XXE_INJECTION" -> {"../"}
      [] key = "SUSPICIOUS_UA" -> {"sqlmap/1.4.7"}
      [] key = "BAD_BOTS" -> {"curl/8.0"}

Min(S) == CHOOSE x \in S : \A y \in S : x <= y

\* test anchored at the start of the input: only the first word is looked at.
testAnchored(pattern, input, li) ==
    LET from == IF pattern.global THEN li[pattern.key] ELSE 0
        ends == {i \in 1..Len(input) :
                    i = 1 /\ i > from /\ input[i] \in Words(pattern.key)}
    IN  [ matched |-> ends # {},
          lastIndex |-> IF ends # {} THEN Min(ends) ELSE 0 ]

\* RegExp.prototype.test: a g pattern searches from its lastIndex, leaves
\* it at the end of the match, and resets it to 0 when nothing matches.
test(pattern, input, li) ==
    LET from == IF pattern.global THEN li[pattern.key] ELSE 0
        ends == {i \in 1..Len(input) :
                    i > from /\ input[i] \in Words(pattern.key)}
    IN  [ matched |-> ends # {},
          lastIndex |-> IF ends # {} THEN Min(ends) ELSE 0 ]

\* The loop of scan without its `break`: patterns 1..n tested and scored.
RECURSIVE accumulate(_, _)
accumulate(tested, n) ==
    IF n = 0 THEN [threats |-> <<>>, riskScore |-> 0]
    ELSE LET rest == accumulate(tested, n - 1)
         IN  IF tested[n].matched
             THEN [ threats |-> Append(rest.threats,
                                  [ type |-> SECURITY_PATTERNS[n].key,
                                    severity |-> SECURITY_PATTERNS[n].severity ]),
                    riskScore |-> rest.riskScore
                        + SEVERITY_LEVELS[SECURITY_PATTERNS[n].severity].score ]
             ELSE rest

scanAccumulate(input, li) ==
    IF input = <<>>
    THEN [ isSafe |-> TRUE, threats |-> <<>>, riskScore |-> 0,
           action |-> "undefined", lastIndex |-> li ]
    ELSE
    LET tested == [n \in DOMAIN SECURITY_PATTERNS |->
                      test(SECURITY_PATTERNS[n], input, li)]
        all == accumulate(tested, Len(SECURITY_PATTERNS))
    IN  [ isSafe |-> Len(all.threats) = 0,
          threats |-> all.threats,
          riskScore |-> all.riskScore,
          action |-> IF all.riskScore >= 75 THEN "BLOCK"
                     ELSE IF all.riskScore >= 50 THEN "WARN" ELSE "ALLOW",
          lastIndex |-> [k \in GlobalPatternKeys |->
                           tested[PatternIndex(k)].lastIndex] ]

\* scan taking its action from the matched severity's entry of
\* SEVERITY_LEVELS instead of the riskScore thresholds.
scanSeverityAction(input, li) ==
    IF input = <<>>
    THEN [ isSafe |-> TRUE, threats |-> <<>>, riskScore |-> 0,
           action |-> "undefined", lastIndex |-> li ]
    ELSE
    LET tested == [n \in DOMAIN SECURITY_PATTERNS |->
                      test(SECURITY_PATTERNS[n], input, li)]
        hits == {n \in DOMAIN SECURITY_PATTERNS : tested[n].matched}
        last == IF hits = {} THEN Len(SECURITY_PATTERNS) ELSE Min(hits)
    IN  [ isSafe |-> hits = {},
          threats |-> IF hits = {} THEN <<>>
                      ELSE << [ type |-> SECURITY_PATTERNS[last].key,
                                severity |-> SECURITY_PATTERNS[last].severity ] >>,
          riskScore |-> IF hits = {} THEN 0
                        ELSE SEVERITY_LEVELS[SECURITY_PATTERNS[last].severity].score,
          action |-> IF hits = {} THEN "ALLOW"
                     ELSE SEVERITY_LEVELS[SECURITY_PATTERNS[last].severity].action,
          lastIndex |-> [k \in GlobalPatternKeys |->
                           IF PatternIndex(k) <= last
                           THEN tested[PatternIndex(k)].lastIndex
                           ELSE li[k]] ]

\* scan: lines 9-31.  The empty string is falsy: the early return carries
\* neither riskScore nor action.  The loop breaks at the first match, so
\* the patterns after it are not tested.
scan(input, li) ==
    IF input = <<>>
    THEN [ isSafe |-> TRUE, threats |-> <<>>, riskScore |-> 0,
           action |-> "undefined", lastIndex |-> li ]
    ELSE
    LET tested == [n \in DOMAIN SECURITY_PATTERNS |->
                      test(SECURITY_PATTERNS[n], input, li)]
        hits == {n \in DOMAIN SECURITY_PATTERNS : tested[n].matched}
        last == IF hits = {} THEN Len(SECURITY_PATTERNS) ELSE Min(hits)
        threats == IF hits = {} THEN <<>>
                   ELSE << [ type |-> SECURITY_PATTERNS[last].key,
                             severity |-> SECURITY_PATTERNS[last].severity ] >>
        riskScore == IF hits = {} THEN 0
                     ELSE SEVERITY_LEVELS[SECURITY_PATTERNS[last].severity].score
    IN  [ isSafe |-> Len(threats) = 0,
          threats |-> threats,
          riskScore |-> riskScore,
          action |-> IF riskScore >= 75 THEN "BLOCK"
                     ELSE IF riskScore >= 50 THEN "WARN" ELSE "ALLOW",
          lastIndex |-> [k \in GlobalPatternKeys |->
                           IF PatternIndex(k) <= last
                           THEN tested[PatternIndex(k)].lastIndex
                           ELSE li[k]] ]

\* isMalicious of validations/common.ts.
isMalicious(val, li) == val # <<>> /\ ~scan(val, li).isSafe

(***************************************************************************)
(* The request in the middleware chain, and the response written to it.    *)
(***************************************************************************)
HTTP_CODES ==
    [ OK |-> 200, BAD_REQUEST |-> 400, UNAUTHORIZED |-> 401, FORBIDDEN |-> 403,
      NOT_FOUND |-> 404, INTERNAL_SERVER_ERROR |-> 500 ]

RESPONSE_KEYS ==
    [ OPERATION_SUCCESS |-> "OPERATION_SUCCESS",
      SERVER_ERROR |-> "SERVER_ERROR",
      VALIDATION_ERROR |-> "VALIDATION_ERROR",
      UNAUTHORIZED_ACCESS |-> "UNAUTHORIZED_ACCESS",
      TOKEN_EXPIRED |-> "TOKEN_EXPIRED",
      PERMISSION_DENIED |-> "PERMISSION_DENIED" ]

NoResponse ==
    [ sent |-> FALSE, status |-> 0, success |-> FALSE, slug |-> "",
      data |-> "none", text |-> "" ]

\* sendResponse: the JSON envelope.
sendResponse(statusCode, responseKey, data) ==
    [ sent |-> TRUE, status |-> statusCode,
      success |-> (statusCode >= 200 /\ statusCode < 300),
      slug |-> responseKey, data |-> data, text |-> "" ]

\* res.status(code).send(text)
send(statusCode, text) ==
    [ sent |-> TRUE, status |-> statusCode, success |-> FALSE, slug |-> "",
      data |-> "none", text |-> text ]

NoBody == [password |-> <<>>, bio |-> <<>>]

NoCheck == [isSafe |-> TRUE, riskScore |-> 0, action |-> "undefined"]

\* A header, cookie or body field the request does not carry.
undefined == "undefined"

NoCsrf ==
    [ method |-> "GET", env |-> "development", cookieToken |-> undefined,
      headerToken |-> undefined, bodyToken |-> undefined,
      origin |-> undefined, referer |-> undefined, allowed |-> {} ]

NoRequest ==
    [ mw |-> "none", pc |-> "idle", ip |-> "", ua |-> <<>>, body |-> NoBody,
      csrf |-> NoCsrf, threatLog |-> <<>>,
      signedCookies |-> [access_token |-> "", refresh_token |-> ""],
      getUser |-> "none", refreshSession |-> "none", effects |-> <<>>,
      check |-> NoCheck, malicious |-> FALSE, wasBanned |-> FALSE,
      accessToken |-> "", user |-> "", userBanned |-> FALSE,
      tokenRevoked |-> FALSE,
      intrusions |-> <<>>, banOp |-> 0, res |-> NoResponse,
      nextCalls |-> 0, nextError |-> FALSE, unhandledRejection |-> FALSE ]

(***************************************************************************)
(* The values handed to deepScan.  An object is a node of a graph, named   *)
(* by its id; its entries are what Object.entries lists, in order.  A      *)
(* string has a length in characters; str lists, as words, what the       *)
(* patterns can match in it (the rest of a long text is filler).           *)
(***************************************************************************)
MaxStringLength == 10000

JsText(str, length) ==
    [kind |-> "string", str |-> str, length |-> length, id |-> 0]

JsString(str) == JsText(str, Len(str))

\* A harmless text of 10001 characters.
Oversized == JsText(<<"hello">>, MaxStringLength + 1)

JsObject(id) == [kind |-> "object", str |-> <<>>, length |-> 0, id |-> id]

\* null, undefined, a number, a boolean.
JsOther == [kind |-> "other", str |-> <<>>, length |-> 0, id |-> 0]

\* A property: its name, the length of the name in characters, its value.
EntryOfLength(key, keyLength, value) ==
    [key |-> key, keyLength |-> keyLength, value |-> value]

Entry(key, value) == EntryOfLength(key, Len(key), value)

NoGraph ==
    [ shape |-> "none", depth |-> 0, key |-> <<>>, leaf |-> JsOther,
      root |-> JsOther, nodes |-> <<>> ]

\* deepScan's `{ hasThreats: false, threats: [], totalRisk: 0 }`.
NoThreats == [hasThreats |-> FALSE, threats |-> <<>>, totalRisk |-> 0]

\* No deepScan call has been made.
NoDeep ==
    [ pc |-> "idle", graph |-> NoGraph, stack |-> <<>>, verified |-> {},
      tested |-> {}, result |-> NoThreats ]

(***************************************************************************)
(* The cluster.  The primary forks desiredWorkers workers one after the    *)
(* other and replaces a worker that exits; a worker occupies a slot from   *)
(* its fork until the primary has handled its exit.  WORKERS_COUNT is 2.   *)
(***************************************************************************)
desiredWorkers == 2

MAX_RESTARTS == 10

Workers == 1..desiredWorkers

\* A slot no worker occupies.
NoWorker ==
    [ pc |-> "none", handler |-> FALSE, ready |-> "no", readyAt |-> "none",
      dbConnected |-> "unknown", restore |-> "none", signal |-> "none",
      timer |-> FALSE, force |-> FALSE, shutdown |-> "none",
      code |-> 0 ]

\* The primary before spawnWorkers has forked anything: i is the loop
\* variable of spawnWorkers, waiting says that the loop awaits a READY.
NoCluster ==
    [ env |-> "development", primary |-> "running", i |-> 0,
      waiting |-> FALSE, restartCount |-> 0, forks |-> 0, signals |-> 0,
      workers |-> [w \in Workers |-> NoWorker] ]

\* No worker is saving the statistics: the lock is free (0, or the worker
\* whose SET created the key), file is the last worker that wrote the
\* requests file.
NoStats ==
    [ lock |-> 0, file |-> 0, pc |-> [w \in Workers |-> "idle"] ]

(***************************************************************************)
(* The service on its own: the calls the admin controller and startServer  *)
(* make, and the store calls taking effect.                                *)
(***************************************************************************)
Init ==
    /\ redis = [h \in Hashes |-> EmptyMap]
    /\ db = [t \in Tables |-> EmptyMap]
    /\ ops = <<>>
    /\ req = NoRequest
    /\ lastIndex = [k \in GlobalPatternKeys |-> 0]
    /\ lastCheck = [fn |-> "none", arg |-> "", result |-> FALSE, turn |-> 0]
    /\ deep = NoDeep
    /\ cluster = NoCluster
    /\ stats = NoStats

\* The caller of the service awaits each call before it makes the next.
Sequential == \A i \in DOMAIN ops : ops[i].result # "pending"

Next ==
    \/ \E ip \in Ips, r \in Reasons :
          Sequential /\ banIp(ip, r, "admin") /\ UNCHANGED <<req, lastIndex>>
    \/ \E ip \in Ips : Sequential /\ unbanIp(ip)
    \/ \E u \in UserIds, r \in Reasons : Sequential /\ banUser(u, r)
    \/ \E u \in UserIds : Sequential /\ unbanUser(u)
    \/ \E t \in Tokens, r \in Reasons : Sequential /\ revokeToken(t, r)
    \/ \E t \in Tokens : Sequential /\ unrevokeToken(t)
    \/ Sequential /\ restoreFromDb
    \/ \E i \in DOMAIN ops : hset(i)
    \/ \E i \in DOMAIN ops : hdel(i)
    \/ \E i \in DOMAIN ops : upsert(i)
    \/ \E i \in DOMAIN ops : deleteEq(i)
    \/ \E i \in DOMAIN ops : PromiseAll(i)
    \/ \E i \in DOMAIN ops : select(i)
    \/ \E i \in DOMAIN ops : pipelineExec(i)

Spec == Init /\ [][Next]_vars

(***************************************************************************)
(* The service with the reads of the request path.                         *)
(***************************************************************************)
\* BanningService calls made in one behaviour with reads.
MaxReadCalls == 1

NextRead ==
    \/ Next /\ Len(ops') <= MaxReadCalls
    \/ \E ip \in Ips : hexistsReply("isIpBanned", ip)
    \/ \E u \in UserIds : hexistsReply("isUserBanned", u)
    \/ \E t \in Tokens : hexistsReply("isTokenRevoked", t)

SpecRead == Init /\ [][NextRead]_vars

(***************************************************************************)
(* syncToDb: three HGETALLs awaited one after the other, then one upsert   *)
(* per non-empty hash, awaited together.  The timer of startSync calls it  *)
(* whatever else is in flight.  The upserts go to different tables, so     *)
(* the order they are applied in is immaterial and one order is modelled. *)
(* Their results are only logged, and the body sits in a try/catch that    *)
(* logs: the returned promise always fulfils.                              *)
(***************************************************************************)
syncToDb ==
    /\ Call([NewOp("syncToDb", "", "", "", "", "timer")
                EXCEPT !.fast = "none", !.durable = "none",
                       !.pc = REDIS_HASH_IPS])
    /\ UNCHANGED <<redis, db, req, lastIndex, lastCheck, deep, cluster, stats>>

NextHash(hash) ==
    CASE hash = REDIS_HASH_IPS -> REDIS_HASH_USERS
      [] hash = REDIS_HASH_USERS -> REDIS_HASH_TOKENS
      [] hash = REDIS_HASH_TOKENS -> TABLE_IPS

\* const data = await redis.hgetall(hash); a rejection goes to the catch.
hgetall(i) ==
    /\ ops[i].fn = "syncToDb"
    /\ ops[i].pc \in Hashes
    /\ \E out \in RedisOutcomes :
        ops' = [ops EXCEPT ![i] =
            CASE out = "ok" ->
                    [@ EXCEPT !.data[TableOf(ops[i].pc)] =
                                  [ok |-> TRUE, rows |-> redis[ops[i].pc]],
                              !.pc = NextHash(ops[i].pc)]
              [] out = "rejected" ->
                    [@ EXCEPT !.pc = "done", !.failed = TRUE,
                              !.fast = "rejected", !.result = "resolved"]]
    /\ UNCHANGED <<redis, db, req, lastIndex, lastCheck, deep, cluster, stats>>

\* if (payload.length > 0) promises.push(adminDB.from(table).upsert(payload,
\* { onConflict })): every row of the payload replaces the stored reason.
NextUpsert(table) ==
    CASE table = TABLE_IPS -> TABLE_USERS
      [] table = TABLE_USERS -> TABLE_TOKENS
      [] table = TABLE_TOKENS -> "settle"

syncUpsert(i) ==
    /\ ops[i].fn = "syncToDb"
    /\ ops[i].pc \in Tables
    /\ LET table == ops[i].pc
           payload == ops[i].data[table].rows
       IN  IF payload = EmptyMap
           THEN /\ ops' = [ops EXCEPT ![i].pc = NextUpsert(table)]
                /\ db' = db
           ELSE \E out \in DbOutcomes :
                  /\ ops' = [ops EXCEPT
                               ![i].pc = NextUpsert(table),
                               ![i].durable = IF out = "error" THEN "error"
                                              ELSE @]
                  /\ db' = IF out = "ok"
                           THEN [db EXCEPT ![table] = MapMerge(@, payload)]
                           ELSE db
    /\ UNCHANGED <<redis, req, lastIndex, lastCheck, deep, cluster, stats>>

\* const results = await Promise.all(promises); errors are logged.
syncSettled(i) ==
    /\ ops[i].fn = "syncToDb"
    /\ ops[i].pc = "settle"
    /\ ops' = [ops EXCEPT ![i].pc = "done", ![i].result = "resolved",
                          ![i].failed = (ops[i].durable = "error")]
    /\ UNCHANGED <<redis, db, req, lastIndex, lastCheck, deep, cluster, stats>>

NextSync ==
    \/ Next
    \/ syncToDb
    \/ \E i \in DOMAIN ops : hgetall(i)
    \/ \E i \in DOMAIN ops : syncUpsert(i)
    \/ \E i \in DOMAIN ops : syncSettled(i)

SpecSync == Init /\ [][NextSync]_vars

\* The reconciliation calls next to the bans and unbans of IPs and users
\* (tokens are handled by the same code as users).
NextReconcile ==
    \/ \E ip \in Ips, r \in Reasons :
          Sequential /\ banIp(ip, r, "admin") /\ UNCHANGED <<req, lastIndex>>
    \/ \E ip \in Ips : Sequential /\ unbanIp(ip)
    \/ \E u \in UserIds, r \in Reasons : Sequential /\ banUser(u, r)
    \/ \E u \in UserIds : Sequential /\ unbanUser(u)
    \/ Sequential /\ restoreFromDb
    \/ syncToDb
    \/ \E i \in DOMAIN ops : hset(i)
    \/ \E i \in DOMAIN ops : hdel(i)
    \/ \E i \in DOMAIN ops : upsert(i)
    \/ \E i \in DOMAIN ops : deleteEq(i)
    \/ \E i \in DOMAIN ops : PromiseAll(i)
    \/ \E i \in DOMAIN ops : select(i)
    \/ \E i \in DOMAIN ops : pipelineExec(i)
    \/ \E i \in DOMAIN ops : hgetall(i)
    \/ \E i \in DOMAIN ops : syncUpsert(i)
    \/ \E i \in DOMAIN ops : syncSettled(i)

SpecReconcile == Init /\ [][NextReconcile]_vars

(***************************************************************************)
(* An unban while the background sync runs.  The address was banned        *)
(* earlier, with both writes applied: it is in both tiers at the start.    *)
(***************************************************************************)
BannedIp == CHOOSE ip \in BaseIps : TRUE

InitBanned ==
    /\ redis = [h \in Hashes |->
                  IF h = REDIS_HASH_IPS THEN MapPut(EmptyMap, BannedIp, "test")
                  ELSE EmptyMap]
    /\ db = [t \in Tables |->
               IF t = TABLE_IPS THEN MapPut(EmptyMap, BannedIp, "test")
               ELSE EmptyMap]
    /\ ops = <<>>
    /\ req = NoRequest
    /\ lastIndex = [k \in GlobalPatternKeys |-> 0]
    /\ lastCheck = [fn |-> "none", arg |-> "", result |-> FALSE, turn |-> 0]
    /\ deep = NoDeep
    /\ cluster = NoCluster
    /\ stats = NoStats

\* The admin awaits each call before the next; the timer awaits nothing.
AdminIdle ==
    \A i \in DOMAIN ops : ops[i].caller = "timer" \/ ops[i].result # "pending"

NextRace ==
    \/ \E ip \in Ips : AdminIdle /\ unbanIp(ip)
    \/ syncToDb
    \/ \E i \in DOMAIN ops : hdel(i)
    \/ \E i \in DOMAIN ops : deleteEq(i)
    \/ \E i \in DOMAIN ops : PromiseAll(i)
    \/ \E i \in DOMAIN ops : hgetall(i)
    \/ \E i \in DOMAIN ops : syncUpsert(i)
    \/ \E i \in DOMAIN ops : syncSettled(i)

SpecRace == InitBanned /\ [][NextRace]_vars

(***************************************************************************)
(* The middleware.  One request is in the chain at a time.  A middleware   *)
(* runs to its first await in one step; an awaited banIp settles through   *)
(* the store steps and PromiseAll, and the middleware then resumes.        *)
(***************************************************************************)
ClientIps == Ips

UserAgents ==
    { <<>>, <<"Mozilla/5.0">>, <<"sqlmap/1.4.7">>, <<"curl/8.0">>,
      <<"Mozilla/5.0", "/bin/sh">> }

\* The body of the test schema: password is a passwordRule field, bio a
\* textRule field (optional; <<>> stands for a bio that is absent or "").
Passwords ==
    { <<"StrongPassword123!">>, <<"123">>, <<"Password123!", "OR '1'='1">> }

Bios ==
    { <<>>, <<"Just a coding enthusiast.">>,
      <<"Hello", "<script>alert('xss')</script>", "world">>, <<"curl/8.0">> }

Bodies == [password : Passwords, bio : Bios]

MALICIOUS_ERROR == "MALICIOUS_INPUT_DETECTED"

\* passwordRule: length and character-class checks, no scan.
passwordRule(val) ==
    IF val = <<"123">> THEN <<[path |-> "password", message |-> "password.min"]>>
    ELSE <<>>

\* textRule = safeString(..).optional(): the refinement runs on a string.
textRule(val, li) ==
    IF isMalicious(val, li)
    THEN <<[path |-> "bio", message |-> MALICIOUS_ERROR]>>
    ELSE <<>>

\* A parse that reports only what the refinements flag.
parseLenient(body, li) ==
    [ issues |-> textRule(body.bio, li),
      lastIndex |-> scan(body.bio, li).lastIndex ]

\* schema.parse: the issues of the ZodError it throws (none: it returns),
\* and what the refinement's scan left in the patterns.
parse(body, li) ==
    [ issues |-> passwordRule(body.password) \o textRule(body.bio, li),
      lastIndex |-> scan(body.bio, li).lastIndex ]

RejectionOutcomes == {"unhandledRejection", "errorHandler"}

\* An async middleware whose promise rejects: Express 4 drops the rejection
\* (the process logs it, the request stays open); Express 5 passes it to
\* next(err), and the application's error handler answers 500.
handlerRejected(r, outcome) ==
    IF outcome = "errorHandler"
    THEN [r EXCEPT !.pc = "done", !.nextError = TRUE,
                   !.res = sendResponse(HTTP_CODES.INTERNAL_SERVER_ERROR,
                                        RESPONSE_KEYS.SERVER_ERROR, "null")]
    ELSE [r EXCEPT !.pc = "done", !.unhandledRejection = TRUE]

\* What calling the async isIpBanned hands back, and how `if` reads a value.
isIpBannedCall(ip) == [type |-> "Promise", value |-> isIpBanned(ip)]

truthy(v) == IF v.type = "boolean" THEN v.value ELSE TRUE

\* globalBanMiddleware: line 9 tests the promise itself.  No call in the
\* try block throws synchronously, so the catch branch is never taken.
globalBanMiddleware(ip) ==
    LET entered == [NoRequest EXCEPT !.mw = "globalBanMiddleware", !.ip = ip,
                                     !.wasBanned = isIpBanned(ip)]
    IN  /\ req.pc \in {"idle", "done"}
        /\ IF truthy(isIpBannedCall(ip))
           THEN req' = [entered EXCEPT
                          !.pc = "done",
                          !.intrusions = <<[riskLevel |-> "HIGH",
                                            type |-> "BANNED_IP_ACCESS"]>>,
                          !.res = send(HTTP_CODES.NOT_FOUND, "Not Found")]
           ELSE req' = [entered EXCEPT !.pc = "done", !.nextCalls = 1]
        /\ UNCHANGED <<redis, db, ops, lastIndex, lastCheck, deep, cluster, stats>>

securityMiddleware(ip, userAgent) ==
    LET uaCheck == scan(userAgent, lastIndex)
        isHighSeverity == \E n \in DOMAIN uaCheck.threats :
                              uaCheck.threats[n].severity = "HIGH"
        types == IF uaCheck.threats = <<>> THEN ""
                 ELSE uaCheck.threats[1].type
        entered == [NoRequest EXCEPT
                      !.mw = "securityMiddleware", !.ip = ip,
                      !.ua = userAgent,
                      !.check = [isSafe |-> uaCheck.isSafe,
                                 riskScore |-> uaCheck.riskScore,
                                 action |-> uaCheck.action]]
        logged == [entered EXCEPT
                      !.intrusions =
                          <<[riskLevel |-> IF isHighSeverity THEN "HIGH"
                                           ELSE "MEDIUM",
                             type |-> "SUSPICIOUS_USER_AGENT"]>>]
    IN  /\ req.pc \in {"idle", "done"}
        /\ lastIndex' = uaCheck.lastIndex
        /\ IF ~uaCheck.isSafe /\ uaCheck.action = "BLOCK"
           THEN IF isHighSeverity
                THEN /\ banIp(ip, "High Severity Threat: " \o types,
                              "securityMiddleware")
                     /\ req' = [logged EXCEPT !.pc = "awaitBan",
                                              !.banOp = Len(ops) + 1]
                ELSE /\ req' = [logged EXCEPT
                                  !.pc = "done",
                                  !.res = sendResponse(HTTP_CODES.FORBIDDEN,
                                      RESPONSE_KEYS.PERMISSION_DENIED, "null")]
                     /\ UNCHANGED <<redis, db, ops, lastCheck, deep, cluster, stats>>
           ELSE /\ req' = [entered EXCEPT !.pc = "done", !.nextCalls = 1]
                /\ UNCHANGED <<redis, db, ops, lastCheck, deep, cluster, stats>>

\* securityMiddleware after `await banningService.banIp(..)`, line 27.
securityMiddlewareResume ==
    /\ req.mw = "securityMiddleware"
    /\ req.pc = "awaitBan"
    /\ ops[req.banOp].result # "pending"
    /\ IF ops[req.banOp].result = "resolved"
       THEN req' = [req EXCEPT
                      !.pc = "done",
                      !.res = sendResponse(HTTP_CODES.FORBIDDEN,
                                  RESPONSE_KEYS.PERMISSION_DENIED, "null")]
       ELSE \E outcome \in RejectionOutcomes :
                req' = handlerRejected(req, outcome)
    /\ UNCHANGED <<redis, db, ops, lastIndex, lastCheck, deep, cluster, stats>>

\* validate(schema): lines 8-62.  threw stands for a schema whose parse
\* throws something that is not a ZodError, before any refinement ran.
validate(ip, body, threw) ==
    LET parsed == parse(body, lastIndex)
        zodErrors == parsed.issues
        malicious == \E n \in DOMAIN zodErrors :
                         zodErrors[n].message = MALICIOUS_ERROR
        entered == [NoRequest EXCEPT !.mw = "validate", !.ip = ip,
                                     !.body = body]
    IN  /\ req.pc \in {"idle", "done"}
        /\ IF threw
           THEN /\ req' = [entered EXCEPT !.pc = "done", !.nextCalls = 1,
                                          !.nextError = TRUE]
                /\ UNCHANGED <<redis, db, ops, lastIndex, lastCheck, deep, cluster, stats>>
           ELSE
           /\ lastIndex' = parsed.lastIndex
           /\ IF zodErrors = <<>>
              THEN /\ req' = [entered EXCEPT !.pc = "done", !.nextCalls = 1]
                   /\ UNCHANGED <<redis, db, ops, lastCheck, deep, cluster, stats>>
              ELSE IF malicious
              THEN /\ banIp(ip, "CRITICAL: Malicious Input Detected (SQLi/XSS)",
                            "validate")
                   /\ req' = [entered EXCEPT !.pc = "awaitBan",
                                             !.malicious = TRUE,
                                             !.banOp = Len(ops) + 1]
              ELSE /\ req' = [entered EXCEPT
                                !.pc = "done",
                                !.res = sendResponse(HTTP_CODES.BAD_REQUEST,
                                    RESPONSE_KEYS.VALIDATION_ERROR, "errors")]
                   /\ UNCHANGED <<redis, db, ops, lastCheck, deep, cluster, stats>>

\* validate after `await banningService.banIp(..)`, line 34: the await sits
\* in the catch block, outside any try.
validateResume ==
    /\ req.mw = "validate"
    /\ req.pc = "awaitBan"
    /\ ops[req.banOp].result # "pending"
    /\ IF ops[req.banOp].result = "resolved"
       THEN req' = [req EXCEPT
                      !.pc = "done",
                      !.res = sendResponse(HTTP_CODES.FORBIDDEN,
                                  RESPONSE_KEYS.PERMISSION_DENIED, "null")]
       ELSE \E outcome \in RejectionOutcomes :
                req' = handlerRejected(req, outcome)
    /\ UNCHANGED <<redis, db, ops, lastIndex, lastCheck, deep, cluster, stats>>

(***************************************************************************)
(* csrfProtection: the double-submit check, then the Origin / Referer      *)
(* check.  NODE_ENV and CORS_ORIGINS are read from the environment.        *)
(***************************************************************************)
Methods == {"GET", "HEAD", "OPTIONS", "POST", "DELETE"}

NodeEnvs == {"test", "development", "production"}

CsrfTokens == {"csrf-1", "csrf-2"}

\* What a cookie, a header or a body field can hold: nothing, the empty
\* string, a token.
Submitted == {undefined, ""} \cup CsrfTokens

Origins == {undefined, "https://app.example.com", "https://evil.example"}

Referers == {undefined, "https://app.example.com/page", "not a url"}

\* ALLOWED_ORIGINS, from CORS_ORIGINS.
AllowedOrigins == {{}, {"https://app.example.com"}}

\* An `or` that falls back to b only when a is missing altogether.
orUndefined(a, b) == IF a = undefined THEN b ELSE a

\* `a || b` on two values that are strings or undefined.
or(a, b) == IF a = undefined \/ a = "" THEN b ELSE a

\* A test for a missing value that lets the empty string through.
notUndefined(v) == v = undefined

\* `!v`.
not(v) == v = undefined \/ v = ""

\* new URL(source).origin; "throws" when source is not a URL.
urlOrigin(source) ==
    CASE source = "https://app.example.com" -> "https://app.example.com"
      [] source = "https://app.example.com/page" -> "https://app.example.com"
      [] source = "https://evil.example" -> "https://evil.example"
      [] OTHER -> "throws"

denied(entered, event) ==
    [entered EXCEPT
        !.threatLog = <<[event |-> event]>>,
        !.res = sendResponse(HTTP_CODES.FORBIDDEN,
                             RESPONSE_KEYS.PERMISSION_DENIED, "null")]

\* csrfProtection: lines 49-134.
csrfProtection(ip, c) ==
    LET entered == [NoRequest EXCEPT !.mw = "csrfProtection", !.ip = ip,
                                     !.pc = "done", !.csrf = c]
        isProduction == c.env = "production"
        submittedToken == or(c.headerToken, c.bodyToken)
        source == or(c.origin, c.referer)
    IN  /\ req.pc \in {"idle", "done"}
        /\ req' =
            IF c.method \in {"GET", "HEAD", "OPTIONS"} \/ c.env = "test"
            THEN [entered EXCEPT !.nextCalls = 1]
            ELSE IF not(c.cookieToken) \/ not(submittedToken)
                    \/ c.cookieToken # submittedToken
            THEN denied(entered, "CSRF_TOKEN_MISMATCH")
            ELSE IF isProduction /\ not(source)
            THEN denied(entered, "CSRF_MISSING_SOURCE")
            ELSE IF ~not(source) /\ urlOrigin(source) = "throws"
            THEN denied(entered, "CSRF_INVALID_SOURCE_FORMAT")
            ELSE IF ~not(source) /\ c.allowed # {}
                    /\ urlOrigin(source) \notin c.allowed
            THEN denied(entered, "CSRF_ORIGIN_MISMATCH")
            ELSE [entered EXCEPT !.nextCalls = 1]
        /\ UNCHANGED <<redis, db, ops, lastIndex, lastCheck, deep, cluster, stats>>

CsrfRequests ==
    [ method : Methods, env : NodeEnvs, cookieToken : Submitted,
      headerToken : Submitted, bodyToken : Submitted, origin : Origins,
      referer : Referers, allowed : AllowedOrigins ]

\* csrfProtection keeps nothing from one request to the next: a behaviour
\* is one request.
NextCsrf ==
    /\ req.pc = "idle"
    /\ \E ip \in ClientIps, c \in CsrfRequests : csrfProtection(ip, c)

SpecCsrf == Init /\ [][NextCsrf]_vars

(***************************************************************************)
(* requireAuth.  Supabase Auth answers getUser and refreshSession; neither *)
(* touches the ban store, so the middleware is one step.                   *)
(***************************************************************************)
NoCookie == ""

AccessTokens == Tokens \cup {NoCookie}

RefreshTokens == {NoCookie, "refresh-1"}

GetUserOutcomes == {"user", "error", "throws"}

\* refreshSession resolves with a session, with an error, or with neither;
\* or it rejects.
RefreshOutcomes == {"session", "error", "noSession", "throws"}

\* The user a session of the identity provider belongs to.
SessionUser == CHOOSE u \in UserIds : TRUE

\* The access token a refreshed session carries.
RefreshedToken == "sig-2"

\* A coreAuth that passes the request on before it has set the cookies.
RefreshedNextFirst ==
    << "req.user", "next", "setCookie access_token",
       "setCookie refresh_token", "rotateCsrfToken" >>

\* What coreAuth does to the response and the request, in order, when the
\* refresh has given a session: lines 74-79.
Refreshed ==
    << "setCookie access_token", "setCookie refresh_token", "rotateCsrfToken",
       "req.user", "next" >>

\* Lines 56-58 and 63-71: the cookies are cleared, then 401 is sent.
Expired ==
    << "clearCookie access_token", "clearCookie refresh_token",
       "sendResponse" >>

\* coreAuth: lines 33-92.  An await that rejects, or a call that throws,
\* ends in the catch block: 500 SERVER_ERROR.
requireAuth(ip, accessToken, refreshToken, getUser, refreshSession) ==
    LET calledGetUser == accessToken # NoCookie
        calledRefresh == /\ refreshToken # NoCookie
                         /\ ~(calledGetUser /\ getUser \in {"user", "throws"})
        entered == [NoRequest EXCEPT
                      !.mw = "requireAuth", !.ip = ip, !.pc = "done",
                      !.accessToken = accessToken,
                      !.signedCookies = [access_token |-> accessToken,
                                         refresh_token |-> refreshToken],
                      !.getUser = IF calledGetUser THEN getUser ELSE "none",
                      !.refreshSession = IF calledRefresh THEN refreshSession
                                         ELSE "none",
                      !.tokenRevoked = (accessToken # NoCookie
                                        /\ isTokenRevoked(accessToken))]
        authenticated == [entered EXCEPT
                            !.user = SessionUser,
                            !.userBanned = isUserBanned(SessionUser),
                            !.nextCalls = 1]
        expired == [entered EXCEPT
                      !.effects = Expired,
                      !.res = sendResponse(HTTP_CODES.UNAUTHORIZED,
                                  RESPONSE_KEYS.TOKEN_EXPIRED, "null")]
        serverError == [entered EXCEPT
                          !.effects = <<"sendResponse">>,
                          !.res = sendResponse(HTTP_CODES.INTERNAL_SERVER_ERROR,
                                      RESPONSE_KEYS.SERVER_ERROR, "null")]
    IN  /\ req.pc \in {"idle", "done"}
        /\ req' =
            IF accessToken = NoCookie /\ refreshToken = NoCookie
            THEN [entered EXCEPT
                    !.effects = <<"sendResponse">>,
                    !.res = sendResponse(HTTP_CODES.UNAUTHORIZED,
                                RESPONSE_KEYS.UNAUTHORIZED_ACCESS, "null")]
            ELSE IF accessToken # NoCookie /\ getUser = "throws"
            THEN serverError
            ELSE IF accessToken # NoCookie /\ getUser = "user"
            THEN [authenticated EXCEPT !.effects = <<"req.user", "next">>]
            ELSE IF refreshToken = NoCookie
            THEN expired
            ELSE IF refreshSession = "throws"
            THEN serverError
            ELSE IF refreshSession \in {"error", "noSession"}
            THEN [expired EXCEPT !.threatLog =
                                     <<[event |-> "AUTH_REFRESH_FAILED"]>>]
            ELSE [authenticated EXCEPT !.accessToken = RefreshedToken,
                                       !.tokenRevoked = FALSE,
                                       !.effects = Refreshed]
        /\ UNCHANGED <<redis, db, ops, lastIndex, lastCheck, deep, cluster, stats>>

\* Bans and revocations made in one behaviour.
MaxAuthCalls == 1

NextAuth ==
    \/ \E u \in UserIds, r \in Reasons :
          Sequential /\ banUser(u, r) /\ Len(ops') <= MaxAuthCalls
    \/ \E t \in Tokens, r \in Reasons :
          Sequential /\ revokeToken(t, r) /\ Len(ops') <= MaxAuthCalls
    \/ \E i \in DOMAIN ops : hset(i)
    \/ \E i \in DOMAIN ops : upsert(i)
    \/ \E i \in DOMAIN ops : PromiseAll(i)
    \/ \E ip \in ClientIps, a \in AccessTokens, r \in RefreshTokens,
          g \in GetUserOutcomes, s \in RefreshOutcomes :
          requireAuth(ip, a, r, g, s)

SpecAuth == Init /\ [][NextAuth]_vars

\* banIp calls made for requests in one behaviour.
MaxEscalations == 1

NextReq ==
    \/ \E ip \in ClientIps : globalBanMiddleware(ip)
    \/ \E ip \in ClientIps, ua \in UserAgents :
          securityMiddleware(ip, ua) /\ Len(ops') <= MaxEscalations
    \/ securityMiddlewareResume
    \/ \E ip \in ClientIps, body \in Bodies, threw \in BOOLEAN :
          validate(ip, body, threw) /\ Len(ops') <= MaxEscalations
    \/ validateResume
    \/ \E i \in DOMAIN ops : hset(i)
    \/ \E i \in DOMAIN ops : upsert(i)
    \/ \E i \in DOMAIN ops : PromiseAll(i)

SpecReq == Init /\ [][NextReq]_vars

(***************************************************************************)
(* The scanner called on its own, one call after the other, by whatever    *)
(* layer holds a value to check.                                           *)
(***************************************************************************)
\* Words of a scanned string.
MaxWords == 2

ScanWords ==
    {"hello", "OR '1'='1", "<script>alert('xss')</script>", "curl/8.0"}

RECURSIVE StringsUpTo(_)
StringsUpTo(n) ==
    IF n = 0 THEN {<<>>}
    ELSE LET shorter == StringsUpTo(n - 1)
         IN  shorter \cup {Append(s, w) : s \in shorter, w \in ScanWords}

Strings == StringsUpTo(MaxWords)

\* JavaScript values handed to scan: str is the text of a string.
JsValue(type, str) == [type |-> type, str |-> str]

NonStrings ==
    {JsValue(t, <<>>) : t \in {"null", "undefined", "number", "boolean", "object"}}

ScanInputs == {JsValue("string", s) : s \in Strings} \cup NonStrings

\* What a caller of scan sees of its return value.
ScanResult(r) ==
    [ isSafe |-> r.isSafe, threats |-> r.threats, riskScore |-> r.riskScore,
      action |-> r.action ]

\* scan rejecting what is not a string as a threat of its own.
scanValueStrict(input, li) ==
    IF input.type # "string"
    THEN [ isSafe |-> FALSE,
           threats |-> <<[type |-> "INVALID_INPUT", severity |-> "HIGH"]>>,
           riskScore |-> SEVERITY_LEVELS.HIGH.score, action |-> "BLOCK",
           lastIndex |-> li ]
    ELSE scan(input.str, li)

\* scan, line 10: `!input || typeof input !== 'string'`.
scanValue(input, li) ==
    IF input.type # "string" THEN scan(<<>>, li) ELSE scan(input.str, li)

scanCall(input) ==
    /\ lastIndex' = scanValue(input, lastIndex).lastIndex
    /\ lastCheck' = [fn |-> "scan", arg |-> input,
                     result |-> ScanResult(scanValue(input, lastIndex)),
                     turn |-> 1 - lastCheck.turn]
    /\ UNCHANGED <<redis, db, ops, req, deep, cluster, stats>>

NextScan == \E input \in ScanInputs : scanCall(input)

SpecScan == Init /\ [][NextScan]_vars

(***************************************************************************)
(* deepScan: the recursion over a value, one step per entry visited.  The  *)
(* stack holds a frame per call that is inside its loop over the entries   *)
(* of an object; `verified` is the one set every frame of a call shares.   *)
(***************************************************************************)
MaxDepth == 7

MaxCycle == 2

DepthCap == 5

Benign == <<"hello">>

Malicious == <<"<script>alert('xss')</script>">>

\* Property names: the empty name is a legal one.
Keys == {<<>>, <<"hello">>}

\* A value that is its own root.
Leaf(value) ==
    [ shape |-> "leaf", depth |-> 0, key |-> <<>>, leaf |-> value,
      root |-> value, nodes |-> <<>> ]

\* d objects nested under `key`, the innermost holding `value` under `key`:
\* value is at nesting depth d below the root.  Every object has a second,
\* harmless property.
Chain(d, key, value) ==
    [ shape |-> "chain", depth |-> d, key |-> key, leaf |-> value,
      root |-> JsObject(1),
      nodes |-> [i \in 1..d |->
                   << Entry(key, IF i < d THEN JsObject(i + 1) ELSE value),
                      Entry(<<"hello", "hello">>, JsString(Benign)) >>] ]

\* n objects referring to each other in a ring (to itself when n = 1), the
\* last one holding `value` as well.
Cycle(n, value) ==
    [ shape |-> "cycle", depth |-> n, key |-> <<"hello">>, leaf |-> value,
      root |-> JsObject(1),
      nodes |-> [i \in 1..n |->
                   << Entry(<<"hello">>, JsObject((i % n) + 1)) >> \o
                   (IF i = n THEN << Entry(<<"hello", "hello">>, value) >>
                    ELSE << >>)] ]

\* An object holding `value` that is referred to twice: at the end of a
\* chain of d objects under the root's first property, and by the root's
\* second property.
Shared(d, key, value) ==
    [ shape |-> "shared", depth |-> d, key |-> key, leaf |-> value,
      root |-> JsObject(1),
      nodes |-> [i \in 1..(d + 1) |->
                   IF i = d + 1 THEN << Entry(key, value) >>
                   ELSE << Entry(key, JsObject(i + 1)) >> \o
                        (IF i = 1
                         THEN << Entry(<<"hello", "hello">>, JsObject(d + 1)) >>
                         ELSE << >>)] ]

\* An object with one property, whose name is 10001 characters long.
LongKey(key, value) ==
    [ shape |-> "longKey", depth |-> 1, key |-> key, leaf |-> value,
      root |-> JsObject(1),
      nodes |-> << << EntryOfLength(key, MaxStringLength + 1, value) >> >> ]

\* A harmless text of exactly 10000 characters.
AtLimit == JsText(Benign, MaxStringLength)

\* A text of 10001 characters with a script tag in it.
OversizedMalicious == JsText(Malicious, MaxStringLength + 1)

Leaves ==
    { JsString(Benign), JsString(Malicious), Oversized, JsOther, AtLimit,
      OversizedMalicious }

Graphs ==
    {Chain(d, k, JsString(Malicious)) : d \in 1..MaxDepth, k \in Keys}
        \cup {Cycle(n, v) : n \in 1..MaxCycle, v \in Leaves}
        \cup {Leaf(v) : v \in Leaves}
        \cup {Shared(d, <<"hello">>, JsString(Malicious)) : d \in 2..MaxDepth}
        \cup {LongKey(k, JsString(Benign)) : k \in {Benign, Malicious}}

PAYLOAD_TOO_LARGE ==
    [ hasThreats |-> TRUE,
      threats |-> << [type |-> "PAYLOAD_TOO_LARGE", severity |-> "HIGH"] >>,
      totalRisk |-> 75 ]

\* A deepScan that reports a reference it has met before.
onCycleReported ==
    [ hasThreats |-> TRUE,
      threats |-> << [type |-> "CIRCULAR_REFERENCE", severity |-> "HIGH"] >>,
      totalRisk |-> 75 ]

\* `if (verified.has(obj)) return { hasThreats: false, ... }`.
onCycle == NoThreats

\* A length check that also refuses a text of exactly 10000 characters.
tooLongInclusive(obj) == obj.length >= MaxStringLength

\* `obj.length > 10000`.
tooLong(obj) == obj.length > MaxStringLength

Returned(result, verified, li) ==
    [ returned |-> TRUE, result |-> result, verified |-> verified,
      lastIndex |-> li, tested |-> {},
      frame |-> [node |-> 0, idx |-> 0, depth |-> 0] ]

\* The texts scan runs the patterns on when handed `text`: none for the
\* empty string, which takes the early return.
Tested(text) == IF text.str = <<>> THEN {} ELSE {text}

\* deepScan up to its loop: either it returns, or it enters the loop over
\* the entries of obj with obj added to `verified`.  `tested` is what the
\* patterns were run on.
deepScanEnter(obj, depth, verified, li) ==
    IF depth > DepthCap THEN Returned(NoThreats, verified, li)
    ELSE IF obj.kind = "string" THEN
        IF tooLong(obj) THEN Returned(PAYLOAD_TOO_LARGE, verified, li)
        ELSE LET result == scan(obj.str, li)
             IN  [ Returned([ hasThreats |-> ~result.isSafe,
                              threats |-> result.threats,
                              totalRisk |-> result.riskScore ],
                            verified, result.lastIndex)
                   EXCEPT !.tested = Tested(JsText(obj.str, obj.length)) ]
    ELSE IF obj.kind # "object" THEN Returned(NoThreats, verified, li)
    ELSE IF obj.id \in verified THEN Returned(onCycle, verified, li)
    ELSE [ returned |-> FALSE, result |-> NoThreats,
           verified |-> verified \cup {obj.id}, lastIndex |-> li,
           tested |-> {},
           frame |-> [node |-> obj.id, idx |-> 1, depth |-> depth] ]

\* The outermost call has returned `result`.
deepScanDone(result, verified, tested) ==
    [deep EXCEPT !.pc = "done", !.stack = <<>>, !.verified = verified,
                 !.tested = tested, !.result = result]

\* The frame on top of the stack moves on to its next entry.
NextEntry(stack) ==
    [stack EXCEPT ![Len(stack)].idx = stack[Len(stack)].idx + 1]

\* SecurityValidator.deepScan(value), called while no other call runs.
deepScanCall(graph) ==
    /\ deep.pc # "run"
    /\ \E e \in {deepScanEnter(graph.root, 0, {}, lastIndex)} :
           /\ lastIndex' = e.lastIndex
           /\ deep' = IF e.returned
                      THEN [ pc |-> "done", graph |-> graph, stack |-> <<>>,
                             verified |-> e.verified, tested |-> e.tested,
                             result |-> e.result ]
                      ELSE [ pc |-> "run", graph |-> graph,
                             stack |-> <<e.frame>>, verified |-> e.verified,
                             tested |-> e.tested, result |-> NoThreats ]
    /\ UNCHANGED <<redis, db, ops, req, lastCheck, cluster, stats>>

\* One turn of the loop: the key is scanned, whatever its length, then the
\* value is descended into.  A threat found returns through every frame.
deepScanEntry ==
    /\ deep.pc = "run"
    /\ LET top == deep.stack[Len(deep.stack)]
           entries == deep.graph.nodes[top.node]
       IN  /\ top.idx <= Len(entries)
           /\ \E keyResult \in {scan(entries[top.idx].key, lastIndex)} :
              \E e \in {deepScanEnter(entries[top.idx].value, top.depth + 1,
                                      deep.verified, keyResult.lastIndex)} :
              \E keyTested \in {deep.tested \cup
                                   Tested(JsText(entries[top.idx].key,
                                                 entries[top.idx].keyLength))} :
                  IF ~keyResult.isSafe
                  THEN /\ lastIndex' = keyResult.lastIndex
                       /\ deep' = deepScanDone(
                                     [ hasThreats |-> TRUE,
                                       threats |-> keyResult.threats,
                                       totalRisk |-> keyResult.riskScore ],
                                     deep.verified, keyTested)
                  ELSE /\ lastIndex' = e.lastIndex
                       /\ deep' =
                            IF ~e.returned
                            THEN [deep EXCEPT !.stack = Append(@, e.frame),
                                              !.verified = e.verified,
                                              !.tested = keyTested]
                            ELSE IF e.result.hasThreats
                            THEN deepScanDone(e.result, e.verified,
                                              keyTested \cup e.tested)
                            ELSE [deep EXCEPT !.stack = NextEntry(@),
                                              !.tested = keyTested
                                                             \cup e.tested]
    /\ UNCHANGED <<redis, db, ops, req, lastCheck, cluster, stats>>

\* The loop of the top frame is over: the call returns no threat to the
\* frame under it, or to the caller of deepScan.
deepScanReturn ==
    /\ deep.pc = "run"
    /\ LET top == deep.stack[Len(deep.stack)]
           rest == SubSeq(deep.stack, 1, Len(deep.stack) - 1)
       IN  /\ top.idx > Len(deep.graph.nodes[top.node])
           /\ deep' = IF rest = <<>>
                      THEN deepScanDone(NoThreats, deep.verified, deep.tested)
                      ELSE [deep EXCEPT !.stack = NextEntry(rest)]
    /\ UNCHANGED <<redis, db, ops, req, lastIndex, lastCheck, cluster, stats>>

deepScanRun == deepScanEntry \/ deepScanReturn

NextDeep ==
    \/ \E graph \in Graphs : deepScanCall(graph)
    \/ deepScanEntry
    \/ deepScanReturn

SpecDeep == Init /\ [][NextDeep]_vars

\* deepScan is synchronous: once called it runs until it returns.
SpecDeepLive == Init /\ [][NextDeep]_vars /\ WF_vars(deepScanRun)

(***************************************************************************)
(* The security middleware that deep-scans the payload.  The middleware is *)
(* synchronous: it scans the User-Agent, starts deepScan on the object     *)
(* {body, query, params} and answers when deepScan has returned.           *)
(***************************************************************************)
SqlLogic == <<"OR '1'='1">>

\* The object {body, query, params}: the body is d nested objects, the
\* innermost of them holding `value`, so that value is d object levels
\* below the body root; query and params are empty.  Every object of the
\* body has a harmless property before the nested one.
Payload(d, value) ==
    [ shape |-> "request", depth |-> d, key |-> <<"hello">>, leaf |-> value,
      root |-> JsObject(1),
      nodes |-> [i \in 1..(d + 3) |->
                   IF i = 1
                   THEN << Entry(<<"body">>, JsObject(2)),
                           Entry(<<"query">>, JsObject(d + 2)),
                           Entry(<<"params">>, JsObject(d + 3)) >>
                   ELSE IF i <= d + 1
                   THEN << Entry(<<"hello", "hello">>, JsString(Benign)),
                           Entry(<<"hello">>, IF i < d + 1 THEN JsObject(i + 1)
                                              ELSE value) >>
                   ELSE << >>] ]

PayloadValues == {JsString(Benign), JsString(SqlLogic), JsString(Malicious)}

Payloads == {Payload(d, v) : d \in 1..(MaxDepth - 1), v \in PayloadValues}

\* `payloadCheck.totalRisk >= 75`.
honeypot(totalRisk) == totalRisk >= 75

\* securityMiddleware up to the call of deepScan: lines 225-243.
securityMiddlewareDeep(ip, userAgent, graph) ==
    LET uaCheck == scan(userAgent, lastIndex)
        entered == [NoRequest EXCEPT
                      !.mw = "securityMiddlewareDeep", !.ip = ip,
                      !.ua = userAgent,
                      !.check = [isSafe |-> uaCheck.isSafe,
                                 riskScore |-> uaCheck.riskScore,
                                 action |-> uaCheck.action]]
    IN  /\ req.pc \in {"idle", "done"}
        /\ deep.pc # "run"
        /\ IF ~uaCheck.isSafe /\ uaCheck.action = "BLOCK"
           THEN /\ req' = [entered EXCEPT
                             !.pc = "done",
                             !.threatLog =
                                 <<[event |-> "SUSPICIOUS_USER_AGENT"]>>,
                             !.res = sendResponse(HTTP_CODES.FORBIDDEN,
                                         RESPONSE_KEYS.PERMISSION_DENIED,
                                         "null")]
                /\ lastIndex' = uaCheck.lastIndex
                /\ UNCHANGED deep
           ELSE \E e \in {deepScanEnter(graph.root, 0, {},
                                        uaCheck.lastIndex)} :
                    /\ req' = [entered EXCEPT !.pc = "deepScan"]
                    /\ lastIndex' = e.lastIndex
                    /\ deep' = [ pc |-> "run", graph |-> graph,
                                 stack |-> <<e.frame>>,
                                 verified |-> e.verified,
                                 tested |-> e.tested, result |-> NoThreats ]
        /\ UNCHANGED <<redis, db, ops, lastCheck, cluster, stats>>

\* securityMiddleware once deepScan has returned: lines 245-277.
securityMiddlewareDeepResume ==
    /\ req.mw = "securityMiddlewareDeep"
    /\ req.pc = "deepScan"
    /\ deep.pc = "done"
    /\ LET payloadCheck == deep.result
           logged == [req EXCEPT
                        !.pc = "done",
                        !.threatLog =
                            <<[ event |-> "MALICIOUS_PAYLOAD_DETECTED",
                                threats |-> payloadCheck.threats,
                                riskScore |-> payloadCheck.totalRisk ]>>]
       IN  req' = IF payloadCheck.hasThreats
                  THEN IF honeypot(payloadCheck.totalRisk)
                       THEN [logged EXCEPT
                               !.res = sendResponse(HTTP_CODES.OK,
                                           RESPONSE_KEYS.OPERATION_SUCCESS,
                                           "null")]
                       ELSE [logged EXCEPT
                               !.res = sendResponse(HTTP_CODES.BAD_REQUEST,
                                           RESPONSE_KEYS.VALIDATION_ERROR,
                                           "null")]
                  ELSE [req EXCEPT !.pc = "done", !.nextCalls = 1]
    /\ UNCHANGED <<redis, db, ops, lastIndex, lastCheck, deep, cluster, stats>>

NextWaf ==
    \/ \E ip \in ClientIps, userAgent \in UserAgents, graph \in Payloads :
           securityMiddlewareDeep(ip, userAgent, graph)
    \/ deepScanEntry
    \/ deepScanReturn
    \/ securityMiddlewareDeepResume

SpecWaf == Init /\ [][NextWaf]_vars

(***************************************************************************)
(* The cluster manager and the start of a worker.  A worker's pc is the    *)
(* await of startServer it stands at.  Once the primary has exited nothing *)
(* more is followed.                                                       *)
(***************************************************************************)
Envs == {"development", "production"}

Running == cluster.primary = "running"

Alive(w) == cluster.workers[w].pc \notin {"none", "exited"}

\* cluster.fork(): handler says whether spawnWorkers listens to the
\* worker's messages.
fork(handler) == [NoWorker EXCEPT !.pc = "import", !.handler = handler]

exit(worker, code) == [worker EXCEPT !.pc = "exited", !.code = code]

\* A primary that stops replacing at the 10th exit.
withinRestartsStrict(restartCount) == restartCount < MAX_RESTARTS

\* `restartCount <= MAX_RESTARTS`.
withinRestarts(restartCount) == restartCount <= MAX_RESTARTS

\* A startServer that skips the restore when the store is reachable.
afterConnectionTestNoRestore(dbConnected, env) ==
    IF dbConnected \/ env = "production" THEN "listen" ELSE "exit"

\* What startServer does with the result of testSupabaseConnection.
afterConnectionTest(dbConnected, env) ==
    IF dbConnected THEN "restoreFromDb"
    ELSE IF env = "production" THEN "listen"
    ELSE "exit"

\* One turn of the loop of spawnWorkers: fork a worker, listen for its
\* READY.
spawnWorkers ==
    /\ Running
    /\ ~cluster.waiting
    /\ cluster.i < desiredWorkers
    /\ \E w \in Workers :
           /\ cluster.workers[w].pc = "none"
           /\ \A v \in Workers : cluster.workers[v].pc = "none" => w <= v
           /\ cluster' = [cluster EXCEPT !.waiting = TRUE,
                                         !.workers[w] = fork(TRUE)]
    /\ UNCHANGED <<redis, db, ops, req, lastIndex, lastCheck, deep, stats>>

\* messageHandler of the worker the loop waits for: READY resolves the
\* promise and the loop goes on.
messageHandler(w) ==
    /\ Running
    /\ cluster.workers[w].handler
    /\ cluster.workers[w].ready = "sent"
    /\ cluster' = [cluster EXCEPT !.waiting = FALSE, !.i = @ + 1,
                                  !.workers[w].handler = FALSE,
                                  !.workers[w].ready = "received"]
    /\ UNCHANGED <<redis, db, ops, req, lastIndex, lastCheck, deep, stats>>

\* cluster.on('exit'): the worker of slot w has exited.
onExit(w) ==
    /\ Running
    /\ cluster.workers[w].pc = "exited"
    /\ LET restartCount == cluster.restartCount + 1
       IN  cluster' =
               IF withinRestarts(restartCount)
               THEN [cluster EXCEPT !.restartCount = restartCount,
                                    !.forks = @ + 1,
                                    !.workers[w] = fork(FALSE)]
               ELSE [cluster EXCEPT !.restartCount = restartCount,
                                    !.primary = "process.exit(1)",
                                    !.workers[w] = NoWorker]
    /\ UNCHANGED <<redis, db, ops, req, lastIndex, lastCheck, deep, stats>>

\* The worker imports server.js: the module calls startServer without
\* awaiting it, startServer runs to its first await, the import is over
\* and READY is sent.  A module that fails to load ends the worker.
workerImport(w, loaded) ==
    /\ Running
    /\ cluster.workers[w].pc = "import"
    /\ cluster' =
           IF loaded
           THEN [cluster EXCEPT
                    !.workers[w].pc = "testSupabaseConnection",
                    !.workers[w].ready = "sent",
                    !.workers[w].readyAt = "testSupabaseConnection"]
           ELSE [cluster EXCEPT !.workers[w] = exit(@, 1)]
    /\ UNCHANGED <<redis, db, ops, req, lastIndex, lastCheck, deep, stats>>

\* startServer after `await testSupabaseConnection()`.
connectionTested(w, dbConnected) ==
    /\ Running
    /\ cluster.workers[w].pc = "testSupabaseConnection"
    /\ LET then == afterConnectionTest(dbConnected, cluster.env)
           tested == [cluster.workers[w] EXCEPT
                        !.dbConnected = IF dbConnected THEN "yes" ELSE "no"]
       IN  cluster' =
               [cluster EXCEPT
                   !.workers[w] =
                       IF then = "exit" THEN exit(tested, 1)
                       ELSE [tested EXCEPT
                               !.pc = IF then = "listen" THEN "listening"
                                      ELSE then]]
    /\ UNCHANGED <<redis, db, ops, req, lastIndex, lastCheck, deep, stats>>

\* restoreFromDb catches what its reads and its pipeline throw: it
\* resolves whether the bans were loaded ("complete") or not ("failed").
RestoreOutcomes == {"complete", "failed"}

\* startServer after `await banningService.restoreFromDb()`.
restoreFromDbDone(w, outcome) ==
    /\ Running
    /\ cluster.workers[w].pc = "restoreFromDb"
    /\ cluster' = [cluster EXCEPT !.workers[w].pc = "restoreFromLocal",
                                  !.workers[w].restore = outcome]
    /\ UNCHANGED <<redis, db, ops, req, lastIndex, lastCheck, deep, stats>>

PromiseOutcomes == {"resolved", "rejected"}

\* startServer after `await requestsService.restoreFromLocal()`: the
\* server listens, or the rejection is caught and the process exits.
restoreFromLocalDone(w, outcome) ==
    /\ Running
    /\ cluster.workers[w].pc = "restoreFromLocal"
    /\ cluster' = [cluster EXCEPT
                      !.workers[w] =
                          IF outcome = "resolved"
                          THEN [@ EXCEPT !.pc = "listening"]
                          ELSE exit(@, 1)]
    /\ UNCHANGED <<redis, db, ops, req, lastIndex, lastCheck, deep, stats>>

\* A worker crashes or is killed.
workerKilled(w) ==
    /\ Running
    /\ Alive(w)
    /\ cluster' = [cluster EXCEPT !.workers[w] = exit(@, 1)]
    /\ UNCHANGED <<redis, db, ops, req, lastIndex, lastCheck, deep, stats>>

InitCluster ==
    /\ redis = [h \in Hashes |-> EmptyMap]
    /\ db = [t \in Tables |-> EmptyMap]
    /\ ops = <<>>
    /\ req = NoRequest
    /\ lastIndex = [k \in GlobalPatternKeys |-> 0]
    /\ lastCheck = [fn |-> "none", arg |-> "", result |-> FALSE, turn |-> 0]
    /\ deep = NoDeep
    /\ cluster \in {[NoCluster EXCEPT !.env = env] : env \in Envs}
    /\ stats = NoStats

NextCluster ==
    \/ spawnWorkers
    \/ \E w \in Workers : messageHandler(w)
    \/ \E w \in Workers : onExit(w)
    \/ \E w \in Workers, loaded \in BOOLEAN : workerImport(w, loaded)
    \/ \E w \in Workers, dbConnected \in BOOLEAN :
           connectionTested(w, dbConnected)
    \/ \E w \in Workers, outcome \in RestoreOutcomes :
           restoreFromDbDone(w, outcome)
    \/ \E w \in Workers, outcome \in PromiseOutcomes :
           restoreFromLocalDone(w, outcome)
    \/ \E w \in Workers : workerKilled(w)

SpecCluster == InitCluster /\ [][NextCluster]_vars

\* Every process that can take a step takes it in the end: the primary
\* handles the events it is sent, a worker's awaits settle.  Nothing
\* obliges a worker to crash.
SpecClusterLive ==
    /\ InitCluster
    /\ [][NextCluster]_vars
    /\ WF_vars(spawnWorkers)
    /\ \A w \in Workers :
           /\ WF_vars(messageHandler(w))
           /\ WF_vars(onExit(w))
           /\ WF_vars(\E loaded \in BOOLEAN : workerImport(w, loaded))
           /\ WF_vars(\E dbConnected \in BOOLEAN :
                          connectionTested(w, dbConnected))
           /\ WF_vars(\E outcome \in RestoreOutcomes :
                          restoreFromDbDone(w, outcome))
           /\ WF_vars(\E outcome \in PromiseOutcomes :
                          restoreFromLocalDone(w, outcome))

(***************************************************************************)
(* Shutdown of a worker.  index.ts handles SIGTERM from the moment the     *)
(* worker starts; server.js handles SIGTERM and SIGINT once the server     *)
(* listens.  A timer fires when its delay has passed, the earlier first:   *)
(* how long closing the server and the awaited calls take is not known.    *)
(***************************************************************************)
MaxSignals == 1

Signals == {"SIGTERM", "SIGINT"}

\* A signal reaches worker w.  SIGTERM arms the 3 s timer of index.ts;
\* a listening worker also runs gracefulShutdown: server.close and the
\* 10 s timer.  SIGINT ends a worker that does not listen yet.
signal(w, sig) ==
    /\ Running
    /\ Alive(w)
    /\ cluster.signals < MaxSignals
    /\ cluster.workers[w].signal = "none"
    /\ LET worker == cluster.workers[w]
           graceful == worker.pc = "listening"
           signalled ==
               [worker EXCEPT
                   !.signal = sig,
                   !.timer = (sig = "SIGTERM"),
                   !.force = graceful,
                   !.shutdown = IF graceful THEN "close" ELSE "none"]
       IN  cluster' =
               [cluster EXCEPT
                   !.signals = @ + 1,
                   !.workers[w] = IF sig = "SIGINT" /\ ~graceful
                                  THEN exit(signalled, 1)
                                  ELSE signalled]
    /\ UNCHANGED <<redis, db, ops, req, lastIndex, lastCheck, deep, stats>>

\* The callback of server.close: every connection has ended.
serverClosed(w) ==
    /\ Running
    /\ Alive(w)
    /\ cluster.workers[w].shutdown = "close"
    /\ cluster' = [cluster EXCEPT !.workers[w].shutdown = "dispose"]
    /\ UNCHANGED <<redis, db, ops, req, lastIndex, lastCheck, deep, stats>>

\* After `await requestsService.dispose()`: a rejection ends the callback
\* (it is only logged as an unhandled rejection).
disposed(w, outcome) ==
    /\ Running
    /\ Alive(w)
    /\ cluster.workers[w].shutdown = "dispose"
    /\ cluster' = [cluster EXCEPT
                      !.workers[w].shutdown =
                          IF outcome = "resolved" THEN "syncToDb"
                          ELSE "rejected"]
    /\ UNCHANGED <<redis, db, ops, req, lastIndex, lastCheck, deep, stats>>

\* After `await banningService.syncToDb()`, which always resolves.
syncToDbDone(w) ==
    /\ Running
    /\ Alive(w)
    /\ cluster.workers[w].shutdown = "syncToDb"
    /\ cluster' = [cluster EXCEPT !.workers[w].shutdown = "quit"]
    /\ UNCHANGED <<redis, db, ops, req, lastIndex, lastCheck, deep, stats>>

\* After `await redis.quit()`: process.exit(0).
redisQuit(w, outcome) ==
    /\ Running
    /\ Alive(w)
    /\ cluster.workers[w].shutdown = "quit"
    /\ cluster' = [cluster EXCEPT
                      !.workers[w] =
                          IF outcome = "resolved"
                          THEN exit([@ EXCEPT !.shutdown = "done"], 0)
                          ELSE [@ EXCEPT !.shutdown = "rejected"]]
    /\ UNCHANGED <<redis, db, ops, req, lastIndex, lastCheck, deep, stats>>

\* The 3 s timer of the SIGTERM handler of index.ts: process.exit(0).
shutdownTimer(w) ==
    /\ Running
    /\ Alive(w)
    /\ cluster.workers[w].timer
    /\ cluster' = [cluster EXCEPT !.workers[w] = exit(@, 0)]
    /\ UNCHANGED <<redis, db, ops, req, lastIndex, lastCheck, deep, stats>>

\* The 10 s timer of gracefulShutdown: process.exit(1).  The 3 s timer,
\* when armed, has fired before.
forceExit(w) ==
    /\ Running
    /\ Alive(w)
    /\ cluster.workers[w].force
    /\ ~cluster.workers[w].timer
    /\ cluster' = [cluster EXCEPT !.workers[w] = exit(@, 1)]
    /\ UNCHANGED <<redis, db, ops, req, lastIndex, lastCheck, deep, stats>>

NextShutdown ==
    \/ spawnWorkers
    \/ \E w \in Workers : messageHandler(w)
    \/ \E w \in Workers : onExit(w)
    \/ \E w \in Workers, loaded \in BOOLEAN : workerImport(w, loaded)
    \/ \E w \in Workers, dbConnected \in BOOLEAN :
           connectionTested(w, dbConnected)
    \/ \E w \in Workers, outcome \in RestoreOutcomes :
           restoreFromDbDone(w, outcome)
    \/ \E w \in Workers, outcome \in PromiseOutcomes :
           restoreFromLocalDone(w, outcome)
    \/ \E w \in Workers, sig \in Signals : signal(w, sig)
    \/ \E w \in Workers : serverClosed(w)
    \/ \E w \in Workers, outcome \in PromiseOutcomes : disposed(w, outcome)
    \/ \E w \in Workers : syncToDbDone(w)
    \/ \E w \in Workers, outcome \in PromiseOutcomes : redisQuit(w, outcome)
    \/ \E w \in Workers : shutdownTimer(w)
    \/ \E w \in Workers : forceExit(w)

SpecShutdown == InitCluster /\ [][NextShutdown]_vars

(***************************************************************************)
(* The statistics sync.  Every worker runs syncToLocal on a timer.  The    *)
(* lock is the Redis key 'lock:sync_requests', set with NX and an expiry   *)
(* of 5 seconds; how long the awaited reads take is not known.             *)
(***************************************************************************)
\* The awaits of syncToLocal between acquireLock and the end of
\* releaseLock, in order.
NextAwait(pc) ==
    CASE pc = "hgetall" -> "lrange system_errors"
      [] pc = "lrange system_errors" -> "lrange client_errors"
      [] pc = "lrange client_errors" -> "lrange intrusions"
      [] pc = "lrange intrusions" -> "del"

\* `SET key 'locked' PX ttl NX` answers OK when the key does not exist.
acquired(lock) == lock = 0

\* syncToLocal up to its first read: acquireLock, and return when the
\* lock was not acquired.
syncToLocal(w) ==
    /\ stats.pc[w] = "idle"
    /\ stats' = IF acquired(stats.lock)
                THEN [stats EXCEPT !.lock = w, !.pc[w] = "hgetall"]
                ELSE [stats EXCEPT !.pc[w] = "returned"]
    /\ UNCHANGED <<redis, db, ops, req, lastIndex, lastCheck, deep, cluster>>

\* The timer of a worker that was refused the lock comes round again.
syncInterval(w) ==
    /\ stats.pc[w] = "returned"
    /\ stats' = [stats EXCEPT !.pc[w] = "idle"]
    /\ UNCHANGED <<redis, db, ops, req, lastIndex, lastCheck, deep, cluster>>

\* A read of syncToLocal has answered; after the last one the file is
\* written and releaseLock sends DEL.
syncToLocalRead(w) ==
    /\ stats.pc[w] \in {"hgetall", "lrange system_errors",
                        "lrange client_errors", "lrange intrusions"}
    /\ stats' = [stats EXCEPT
                    !.pc[w] = NextAwait(@),
                    !.file = IF NextAwait(stats.pc[w]) = "del" THEN w ELSE @]
    /\ UNCHANGED <<redis, db, ops, req, lastIndex, lastCheck, deep, cluster>>

\* releaseLock: DEL removes the key, whoever set it.
releaseLock(w) ==
    /\ stats.pc[w] = "del"
    /\ stats' = [stats EXCEPT !.lock = 0, !.pc[w] = "idle"]
    /\ UNCHANGED <<redis, db, ops, req, lastIndex, lastCheck, deep, cluster>>

\* The expiry of the key has elapsed.
lockExpires ==
    /\ stats.lock # 0
    /\ stats' = [stats EXCEPT !.lock = 0]
    /\ UNCHANGED <<redis, db, ops, req, lastIndex, lastCheck, deep, cluster>>

NextStats ==
    \/ \E w \in Workers : syncToLocal(w)
    \/ \E w \in Workers : syncInterval(w)
    \/ \E w \in Workers : syncToLocalRead(w)
    \/ \E w \in Workers : releaseLock(w)
    \/ lockExpires

SpecStats == Init /\ [][NextStats]_vars

(***************************************************************************)
(* Properties of the ban store.                                            *)
(***************************************************************************)
IsBan(o, hash, id) == o.fn \in BanFns /\ o.hash = hash /\ o.key = id

IsUnban(o, hash, id) == o.fn \in UnbanFns /\ o.hash = hash /\ o.key = id

\* Every call touches one identity, except restoreFromDb, which touches all.
Touches(o, hash, id) == o.fn = "restoreFromDb" \/ (o.hash = hash /\ o.key = id)

\* The identities a hash is keyed by (IP keys are normalized addresses).
KeysOf(hash) ==
    CASE hash = REDIS_HASH_IPS -> BaseIps
      [] hash = REDIS_HASH_USERS -> UserIds
      [] hash = REDIS_HASH_TOKENS -> Tokens

\* The calls on id are exactly ops[i] then ops[j], each fulfilled, the second
\* made after the first had fulfilled.
OnlyPair(i, j, hash, id) ==
    /\ i \in ops[j].prior
    /\ ops[i].result = "resolved"
    /\ ops[j].result = "resolved"
    /\ \A k \in DOMAIN ops \ {i, j} : ~Touches(ops[k], hash, id)

\* C4 (as claimed): round trip.  After ban(kind, id, r) fulfils and then
\* unban(kind, id) fulfils, with no other operation on id, id is not banned,
\* is not listed, and has no row in the durable table.
C4_RoundTripClean ==
    \A hash \in Hashes : \A id \in KeysOf(hash) :
        \A i, j \in DOMAIN ops :
            ( /\ IsBan(ops[i], hash, id)
              /\ IsUnban(ops[j], hash, id)
              /\ OnlyPair(i, j, hash, id) )
            => /\ ~hexists(hash, id)
               /\ id \notin DOMAIN redis[hash]
               /\ id \notin DOMAIN db[TableOf(hash)]

\* C5 (as claimed): a ban or unban whose durable-tier write failed never
\* fulfils the promise it returned.
C5_DurableFailureSurfaced ==
    \A i \in DOMAIN ops :
        (ops[i].fn \in BanFns \cup UnbanFns /\ ops[i].durable = "error")
        => ops[i].result # "resolved"

\* Two bans of id with different reasons, one after the other, nothing else.
TwoBans(i, j, hash, id) ==
    /\ IsBan(ops[i], hash, id)
    /\ IsBan(ops[j], hash, id)
    /\ ops[i].reason # ops[j].reason
    /\ OnlyPair(i, j, hash, id)

\* C7 (as claimed): after ban(kind, id, r1) then ban(kind, id, r2) with
\* r1 # r2, id is banned and both tiers still hold r1.
C7_FirstReasonKept ==
    \A hash \in Hashes : \A id \in KeysOf(hash) :
        \A i, j \in DOMAIN ops :
            TwoBans(i, j, hash, id)
            => /\ hexists(hash, id)
               /\ redis[hash][id] = ops[i].reason
               /\ id \in DOMAIN db[TableOf(hash)]
               /\ db[TableOf(hash)][id] = ops[i].reason

\* C7 (amended): after ban(kind, id, r1) then ban(kind, id, r2) with r1 # r2,
\* id is banned and the fast tier holds r2, the later reason; the durable
\* tier holds the reason of the latest of the two bans whose upsert was
\* applied, and no row when neither was.
C7_LastReasonWins ==
    \A hash \in Hashes : \A id \in KeysOf(hash) :
        \A i, j \in DOMAIN ops :
            TwoBans(i, j, hash, id)
            => /\ hexists(hash, id)
               /\ redis[hash][id] = ops[j].reason
               /\ CASE ops[j].durable = "ok" ->
                          /\ id \in DOMAIN db[TableOf(hash)]
                          /\ db[TableOf(hash)][id] = ops[j].reason
                    [] ops[j].durable # "ok" /\ ops[i].durable = "ok" ->
                          /\ id \in DOMAIN db[TableOf(hash)]
                          /\ db[TableOf(hash)][id] = ops[i].reason
                    [] OTHER -> id \notin DOMAIN db[TableOf(hash)]

C7_Witness ==
    \E hash \in Hashes : \E id \in KeysOf(hash) :
        \E i, j \in DOMAIN ops :
            /\ TwoBans(i, j, hash, id)
            /\ ops[i].durable = "ok"
            /\ ops[j].durable = "ok"
            /\ ops[i].reason = "test"

\* C8: an address and its IPv4-mapped form are one identity.  For every x
\* that does not start with '::ffff:', isIpBanned answers the same for x and
\* '::ffff:' + x, banIp and unbanIp called with either form act on the key
\* x, and no key of either tier starts with '::ffff:'.
C8_MappedFormEquivalent ==
    /\ \A x \in Ips :
          ~startsWith(x, MappedPrefix)
          => isIpBanned(x) = isIpBanned(MappedPrefix \o x)
    /\ \A i \in DOMAIN ops :
          ops[i].fn \in {"banIp", "unbanIp"}
          => /\ ~startsWith(ops[i].key, MappedPrefix)
             /\ ops[i].arg \in {ops[i].key, MappedPrefix \o ops[i].key}
    /\ \A k \in DOMAIN redis[REDIS_HASH_IPS] \cup DOMAIN db[TABLE_IPS] :
          ~startsWith(k, MappedPrefix)

C8_Witness ==
    \E i \in DOMAIN ops :
        /\ ops[i].fn = "banIp"
        /\ startsWith(ops[i].arg, MappedPrefix)
        /\ ops[i].result = "resolved"
        /\ ops[i].durable = "ok"
        /\ \E x \in BaseIps :
              /\ isIpBanned(x)
              /\ isIpBanned(MappedPrefix \o x)
              /\ x \in DOMAIN db[TABLE_IPS]

\* restoreFromDb ran to its end with every select returning rows and the
\* pipeline executed, it is the latest call, and the durable tier is as it
\* was read.
RestoreCompleted(i) ==
    /\ ops[i].fn = "restoreFromDb"
    /\ i = Len(ops)
    /\ ops[i].pc = "done"
    /\ ~ops[i].failed
    /\ \A t \in Tables : ops[i].data[t].ok /\ ops[i].data[t].rows = db[t]

\* C9: whatever the fast tier held, once restoreFromDb has completed without
\* a failure every identity of the durable tier, of each of the three kinds,
\* is reported banned by the check of its kind.
C9_RestoreLoadsDurableTier ==
    \A i \in DOMAIN ops :
        RestoreCompleted(i)
        => /\ \A ip \in DOMAIN db[TABLE_IPS] : isIpBanned(ip)
           /\ \A u \in DOMAIN db[TABLE_USERS] : isUserBanned(u)
           /\ \A t \in DOMAIN db[TABLE_TOKENS] : isTokenRevoked(t)

\* A ban reached only the durable tier (HSET rejected), then a restore
\* completed.
C9_Witness ==
    \E i, j \in DOMAIN ops :
        /\ RestoreCompleted(j)
        /\ ops[i].fn = "revokeToken"
        /\ ops[i].fast = "rejected"
        /\ ops[i].key \in DOMAIN db[TABLE_TOKENS]
        /\ isTokenRevoked(ops[i].key)

\* The key of the hash a read is expected to look up.
BaseOf(ip) == CHOOSE x \in BaseIps : ip \in {x, MappedPrefix \o x}

InFastTier(fn, arg) ==
    CASE fn = "isIpBanned" -> BaseOf(arg) \in DOMAIN redis[REDIS_HASH_IPS]
      [] fn = "isUserBanned" -> arg \in DOMAIN redis[REDIS_HASH_USERS]
      [] fn = "isTokenRevoked" -> arg \in DOMAIN redis[REDIS_HASH_TOKENS]

Finished(mw) == req.mw = mw /\ req.pc = "done"

\* A scanner that has tested nothing yet.
FreshLastIndex == [k \in GlobalPatternKeys |-> 0]

Flagged(val) == isMalicious(val, FreshLastIndex)

\* C1: a request globalBanMiddleware has handled, from an IP in the
\* fast-tier ban set, has an intrusion recorded, is answered 404
\* 'Not Found' and is not passed on; from any other IP it is passed on
\* exactly once and gets no response.
C1_AdmissionByBanSet ==
    Finished("globalBanMiddleware") =>
        IF req.wasBanned
        THEN /\ req.intrusions # <<>>
             /\ req.res.status = 404
             /\ req.res.text = "Not Found"
             /\ req.nextCalls = 0
        ELSE /\ ~req.res.sent
             /\ req.nextCalls = 1

\* C2: a request securityMiddleware has handled, whose User-Agent scan gave
\* a riskScore of 75 or more, ends with 403 PERMISSION_DENIED and is not
\* passed on; otherwise it is passed on exactly once and gets no response.
C2_BlockOnUserAgent ==
    Finished("securityMiddleware") =>
        IF req.check.riskScore >= 75
        THEN /\ req.res.status = 403
             /\ req.res.slug = "PERMISSION_DENIED"
             /\ req.nextCalls = 0
        ELSE /\ ~req.res.sent
             /\ req.nextCalls = 1

\* C3: a request validate has handled, with a field holding a string the
\* scanner flags, is answered with the honeypot response (200,
\* OPERATION_SUCCESS, success, no data) and does not reach the route handler.
C3_HoneypotOnMaliciousField ==
    ( /\ Finished("validate")
      /\ ~req.nextError
      /\ Flagged(req.body.password) \/ Flagged(req.body.bio) ) =>
        /\ req.res.status = 200
        /\ req.res.slug = "OPERATION_SUCCESS"
        /\ req.res.success
        /\ req.res.data = "null"
        /\ req.nextCalls = 0

\* C6: a request for which securityMiddleware or validate called banIp
\* gets its 403 once the call has settled, also when the call rejected, and
\* no rejection escapes the middleware.
C6_ResponseDespiteFailedBan ==
    ( /\ req.mw \in {"securityMiddleware", "validate"}
      /\ req.banOp # 0
      /\ req.pc = "done" ) =>
        /\ req.res.status = 403
        /\ ~req.unhandledRejection
        /\ ~req.nextError

(***************************************************************************)
(* Properties of the two tiers together.                                   *)
(***************************************************************************)
\* Every call was made after all earlier ones had finished, has finished,
\* and every store call it made succeeded.
CompletedOk(i) ==
    /\ ops[i].prior = 1..(i - 1)
    /\ ops[i].pc = "done"
    /\ ops[i].result = "resolved"
    /\ ~ops[i].failed
    /\ ops[i].fast \in {"ok", "none"}
    /\ ops[i].durable \in {"ok", "none"}
    /\ ops[i].fn = "restoreFromDb" => \A t \in Tables : ops[i].data[t].ok

\* C11: faithful mirror.  In a quiescent state reached from empty tiers by
\* bans, unbans, restores and syncs run one at a time, each completed
\* successfully, the fast tier and the durable tier hold the same
\* identities with the same reasons, for every kind.
C11_FaithfulMirror ==
    (\A i \in DOMAIN ops : CompletedOk(i))
    => \A hash \in Hashes : redis[hash] = db[TableOf(hash)]

\* C12: a request requireAuth has handled, whose session token is in the
\* revoked-token set or whose authenticated user is in the banned-user set,
\* is answered by the middleware and not passed on.
C12_UserAndTokenEnforced ==
    (Finished("requireAuth") /\ (req.userBanned \/ req.tokenRevoked))
    => /\ req.res.sent
       /\ req.nextCalls = 0

\* C13: a request securityMiddleware has answered 403 after a User-Agent
\* scan whose matched signature is HIGH or CRITICAL (the one matched
\* signature scores 75 or more exactly then) had banIp called for its
\* client IP, and the IP is in the IP ban list.
C13_EscalationOnHighOrCritical ==
    ( /\ Finished("securityMiddleware")
      /\ req.res.status = 403
      /\ req.check.riskScore >= SEVERITY_LEVELS.HIGH.score )
    => /\ req.banOp # 0
       /\ ops[req.banOp].fn = "banIp"
       /\ ops[req.banOp].arg = req.ip
       /\ normalizedIp(req.ip) \in DOMAIN getBlacklistedIps

(***************************************************************************)
(* Properties of the scanner.                                              *)
(***************************************************************************)
\* The step is a call of scan.
ScanCalled == lastCheck' # lastCheck /\ lastCheck'.fn = "scan"

\* What scan returns for a value when no pattern has been tested before.
FreshResult(input) == ScanResult(scanValue(input, FreshLastIndex))

\* C14: the scanner is stateless.  Whatever calls were made before, scan
\* returns for a value the threats, riskScore and action it returns for it
\* on a first call.
C14_ScanStateless ==
    [][ScanCalled => lastCheck'.result = FreshResult(lastCheck'.arg)]_vars

\* A non-empty string was scanned.
StringScanned == ScanCalled /\ lastCheck'.arg.type = "string"
                            /\ lastCheck'.arg.str # <<>>

\* The signatures whose pattern matches somewhere in the string.
Matching(str) ==
    {n \in DOMAIN SECURITY_PATTERNS :
        \E i \in DOMAIN str : str[i] \in Words(SECURITY_PATTERNS[n].key)}

ScoreOf(n) == SEVERITY_LEVELS[SECURITY_PATTERNS[n].severity].score

ThreatOf(n) ==
    [type |-> SECURITY_PATTERNS[n].key, severity |-> SECURITY_PATTERNS[n].severity]

RECURSIVE SumScores(_)
SumScores(S) ==
    IF S = {} THEN 0
    ELSE LET n == CHOOSE x \in S : TRUE IN ScoreOf(n) + SumScores(S \ {n})

\* The threats of the signatures in S, in catalog order.
RECURSIVE ThreatsOf(_)
ThreatsOf(S) ==
    IF S = {} THEN <<>>
    ELSE LET n == CHOOSE x \in S : \A y \in S : x <= y
         IN  <<ThreatOf(n)>> \o ThreatsOf(S \ {n})

\* C15 (as claimed): riskScore is the sum of the scores of all signatures
\* that match the string, and threats lists every one of them in catalog
\* order.
C15_AccumulateAllMatches ==
    [][StringScanned =>
          /\ lastCheck'.result.riskScore = SumScores(Matching(lastCheck'.arg.str))
          /\ lastCheck'.result.threats = ThreatsOf(Matching(lastCheck'.arg.str))]_vars

\* The signatures whose test succeeds on a call made with the patterns in
\* the state li.
Succeeding(str, li) ==
    {n \in DOMAIN SECURITY_PATTERNS :
        \E i \in DOMAIN str :
            /\ str[i] \in Words(SECURITY_PATTERNS[n].key)
            /\ SECURITY_PATTERNS[n].global => i > li[SECURITY_PATTERNS[n].key]}

\* C15 (amended): scan stops at the first match.  riskScore is the score of
\* the first signature, in catalog order, whose test succeeds on the call,
\* and threats lists that signature alone; when no test succeeds riskScore
\* is 0 and threats is empty.
C15_FirstMatchOnly ==
    [][StringScanned =>
          LET hits == Succeeding(lastCheck'.arg.str, lastIndex)
          IN  IF hits = {}
              THEN /\ lastCheck'.result.riskScore = 0
                   /\ lastCheck'.result.threats = <<>>
              ELSE \E n \in hits :
                      /\ \A m \in hits : n <= m
                      /\ lastCheck'.result.riskScore = ScoreOf(n)
                      /\ lastCheck'.result.threats = <<ThreatOf(n)>>]_vars

\* A string matching two signatures was scanned and one was reported.
C15_Witness ==
    /\ lastCheck.fn = "scan"
    /\ lastCheck.arg.type = "string"
    /\ Cardinality(Matching(lastCheck.arg.str)) >= 2
    /\ Len(lastCheck.result.threats) = 1
    /\ lastCheck.result.riskScore = 75

\* The strings two of which are put together.
Parts == StringsUpTo(1)

Max2(x, y) == IF x >= y THEN x ELSE y

\* The riskScore a call of scan made now would return.
RiskNow(str) == scan(str, lastIndex).riskScore

C17_AbsentInputSafe ==
    ( /\ lastCheck.fn = "scan"
      /\ lastCheck.arg.type # "string" \/ lastCheck.arg.str = <<>> )
    => /\ lastCheck.result.isSafe
       /\ lastCheck.result.threats = <<>>

\* scan(null) was called after a call that had reported a threat.
C17_Witness ==
    /\ lastCheck.fn = "scan"
    /\ lastCheck.arg.type = "null"
    /\ lastCheck.result.isSafe
    /\ \E k \in GlobalPatternKeys : lastIndex[k] # 0

\* C18: a result of scan on a non-empty string is consistent.  isSafe is
\* true exactly when threats is empty, riskScore is then 0, and action is
\* BLOCK from 75, WARN from 50 up to 75, ALLOW below 50.
C18_ResultConsistent ==
    ( /\ lastCheck.fn = "scan"
      /\ lastCheck.arg.type = "string"
      /\ lastCheck.arg.str # <<>> )
    => LET r == lastCheck.result
       IN  /\ r.isSafe <=> (r.threats = <<>>)
           /\ r.isSafe => r.riskScore = 0
           /\ r.action = "BLOCK" <=> r.riskScore >= 75
           /\ r.action = "WARN" <=> (r.riskScore >= 50 /\ r.riskScore < 75)
           /\ r.action = "ALLOW" <=> r.riskScore < 50

\* A LOW match: a threat is reported and the action is ALLOW.
C18_Witness ==
    /\ lastCheck.fn = "scan"
    /\ lastCheck.arg.type = "string"
    /\ ~lastCheck.result.isSafe
    /\ lastCheck.result.riskScore = 25
    /\ lastCheck.result.action = "ALLOW"

\* `riskScore >= 75 ? 'BLOCK' : (riskScore >= 50 ? 'WARN' : 'ALLOW')`.
ActionAt(riskScore) ==
    IF riskScore >= 75 THEN "BLOCK"
    ELSE IF riskScore >= 50 THEN "WARN" ELSE "ALLOW"

\* For every set M of catalog signatures, the score of the first member of
\* M in catalog order and the sum of the scores of M give the same action.
SameActionForEveryMatchSet ==
    \A M \in SUBSET DOMAIN SECURITY_PATTERNS :
        LET first == IF M = {} THEN 0
                     ELSE SEVERITY_LEVELS[SECURITY_PATTERNS[Min(M)].severity].score
            all == accumulate([n \in DOMAIN SECURITY_PATTERNS |->
                                  [matched |-> n \in M]],
                              Len(SECURITY_PATTERNS))
        IN  /\ ActionAt(first) = ActionAt(all.riskScore)
            /\ ActionAt(first) = "BLOCK"
                  <=> \E n \in M : SECURITY_PATTERNS[n].severity
                                       \in {"HIGH", "CRITICAL"}
            /\ ActionAt(first) # "WARN"

\* C38: on a non-empty string, stopping at the first match and adding up
\* all matches decide the same action: BLOCK when a HIGH or CRITICAL
\* signature is among the matches, ALLOW otherwise, and never WARN; and
\* this is so for every set of signatures of the catalog (looked at once,
\* before the first call).
C38_FirstMatchDecidesAction ==
    [][ /\ lastCheck.fn = "none" => SameActionForEveryMatchSet
        /\ ( /\ lastCheck'.fn = "scan"
              /\ lastCheck'.arg.type = "string"
              /\ lastCheck'.arg.str # <<>> )
           => LET all == scanAccumulate(lastCheck'.arg.str, lastIndex)
                  action == lastCheck'.result.action
              IN  /\ action = all.action
                  /\ action = "BLOCK"
                        <=> \E n \in DOMAIN all.threats :
                                all.threats[n].severity
                                    \in {"HIGH", "CRITICAL"}
                  /\ action \in {"BLOCK", "ALLOW"} ]_vars

\* A string that matches a LOW and a HIGH signature was blocked.
C38_Witness ==
    /\ lastCheck.fn = "scan"
    /\ lastCheck.arg.type = "string"
    /\ lastCheck.arg.str = <<"curl/8.0", "OR '1'='1">>
    /\ lastCheck.result.action = "BLOCK"

(***************************************************************************)
(* Properties of deepScan.                                                 *)
(***************************************************************************)
\* deepScan has returned from a value holding one malicious string, in value
\* position, d levels below the root.
OneMaliciousAt(d) ==
    /\ deep.pc = "done"
    /\ deep.graph.shape = "chain"
    /\ deep.graph.leaf = JsString(Malicious)
    /\ deep.graph.depth = d

\* C19: depth cap.  For a tree-shaped value holding exactly one malicious
\* string, in value position at nesting depth d below the root, deepScan
\* returns hasThreats true if d is at most 5 and false if d is greater.
C19_DepthCap ==
    \A d \in 1..MaxDepth :
        OneMaliciousAt(d) => (deep.result.hasThreats <=> d <= DepthCap)

\* The graph is a ring of objects holding no malicious and no oversized
\* string.
CleanCycle ==
    /\ deep.graph.shape = "cycle"
    /\ deep.graph.leaf \in {JsString(Benign), JsOther}

\* C20: cycle termination.  deepScan returns on every finite object graph,
\* rings of objects included, and on a ring holding no malicious and no
\* oversized string what it returns has hasThreats false.
C20_CycleTermination ==
    /\ (deep.pc = "run") ~> (deep.pc = "done")
    /\ []((deep.pc = "done" /\ CleanCycle) => ~deep.result.hasThreats)

\* deepScan has returned from a ring of two objects, each entered once.
C20_Witness ==
    /\ deep.pc = "done"
    /\ CleanCycle
    /\ deep.graph.depth = 2
    /\ deep.verified = {1, 2}
    /\ ~deep.result.hasThreats

\* deepScan has returned from a value whose one string, `leaf`, it visited.
Visited(leaf) ==
    /\ deep.pc = "done"
    /\ deep.graph.shape \in {"leaf", "cycle"}
    /\ deep.graph.leaf = leaf

\* C21: oversized-string boundary.  A string value longer than 10000
\* characters visited by deepScan yields hasThreats true, the one threat
\* PAYLOAD_TOO_LARGE of severity HIGH and totalRisk 75, a blocking score,
\* whatever it contains; a harmless string of at most 10000 characters
\* yields no threat.
C21_OversizedBoundary ==
    \A leaf \in Leaves :
        (Visited(leaf) /\ leaf.kind = "string") =>
            /\ leaf.length > 10000 =>
                  /\ deep.result.hasThreats
                  /\ Len(deep.result.threats) = 1
                  /\ deep.result.threats[1].type = "PAYLOAD_TOO_LARGE"
                  /\ deep.result.threats[1].severity = "HIGH"
                  /\ deep.result.totalRisk = 75
                  /\ SEVERITY_LEVELS.HIGH.score = 75
                  /\ SEVERITY_LEVELS.HIGH.action = "BLOCK"
            /\ (leaf.length <= 10000 /\ leaf.str = Benign) =>
                  /\ ~deep.result.hasThreats
                  /\ deep.result.threats = <<>>

\* A text of 10001 characters holding a script tag, inside a ring of
\* objects, has been refused for its length.
C21_Witness ==
    /\ Visited(OversizedMalicious)
    /\ deep.graph.shape = "cycle"
    /\ deep.result.totalRisk = 75

(***************************************************************************)
(* Properties of the responses.                                            *)
(***************************************************************************)
\* The middleware has stopped the request because of what a scan detected.
StoppedForDetection ==
    /\ req.pc = "done"
    /\ \/ req.mw = "validate" /\ req.malicious
       \/ /\ req.mw = "securityMiddleware"
          /\ ~req.check.isSafe
          /\ req.check.action = "BLOCK"

\* C22: information hiding.  Every request stopped because of detected
\* malicious input receives one and the same response, whichever signature
\* matched and whichever field held it: 403 PERMISSION_DENIED with no data,
\* naming no pattern, no field and no MALICIOUS_INPUT_DETECTED marker.
C22_InformationHiding ==
    StoppedForDetection =>
        /\ req.res.sent
        /\ req.res.status = 403
        /\ req.res.slug = "PERMISSION_DENIED"
        /\ req.res.data = "null"
        /\ req.res.text = ""

\* validate has handled a request none of whose fields carried the
\* malicious-input marker, and whose schema threw nothing but a ZodError.
ValidatedUnmarked ==
    /\ Finished("validate")
    /\ ~req.malicious
    /\ ~req.nextError

\* C23: ordinary validation failures are not treated as attacks.  A request
\* whose data fails the schema with no malicious-input marker is answered
\* 400 VALIDATION_ERROR, is not passed on and has no ban written; a request
\* whose data satisfies the schema is passed on exactly once and is sent
\* nothing.
C23_OrdinaryValidationFailure ==
    ValidatedUnmarked =>
        IF req.body.password = <<"123">>
        THEN /\ req.res.sent
             /\ req.res.status = 400
             /\ req.res.slug = "VALIDATION_ERROR"
             /\ req.nextCalls = 0
             /\ req.banOp = 0
        ELSE /\ req.nextCalls = 1
             /\ ~req.res.sent
             /\ req.banOp = 0

\* A too-short password next to a harmless bio has been answered 400.
C23_Witness ==
    /\ ValidatedUnmarked
    /\ req.body.password = <<"123">>
    /\ req.body.bio = <<"Just a coding enthusiast.">>
    /\ req.res.status = 400

(***************************************************************************)
(* Properties of csrfProtection.                                           *)
(***************************************************************************)
\* csrfProtection has handled a state-changing request outside the test
\* environment.
CsrfChecked ==
    /\ Finished("csrfProtection")
    /\ req.csrf.method \notin {"GET", "HEAD", "OPTIONS"}
    /\ req.csrf.env # "test"

Refused ==
    /\ req.threatLog # <<>>
    /\ req.res.status = 403
    /\ req.nextCalls = 0

Before(a, b) ==
    \E i, j \in DOMAIN req.effects :
        i < j /\ req.effects[i] = a /\ req.effects[j] = b

Did(a) == \E i \in DOMAIN req.effects : req.effects[i] = a

\* C25: requireAuth lets a request through only with a verified identity.
\* next is called only after req.user was set, from the user the provider
\* returned for the presented access token, or from the session of a
\* successful refresh, the new access and refresh cookies being set and the
\* CSRF token rotated before next; with no tokens, or when the refresh
\* fails, the answer is 401, next is not called, and on a failed refresh
\* the auth cookies are cleared.
C25_VerifiedIdentityOnly ==
    Finished("requireAuth") =>
        /\ req.nextCalls > 0 =>
              /\ req.nextCalls = 1
              /\ req.user = SessionUser
              /\ Before("req.user", "next")
              /\ \/ /\ req.signedCookies.access_token # NoCookie
                    /\ req.getUser = "user"
                 \/ /\ req.signedCookies.refresh_token # NoCookie
                    /\ req.refreshSession = "session"
                    /\ Before("setCookie access_token", "next")
                    /\ Before("setCookie refresh_token", "next")
                    /\ Before("rotateCsrfToken", "next")
        /\ ( /\ req.signedCookies.access_token = NoCookie
             /\ req.signedCookies.refresh_token = NoCookie ) =>
              /\ req.res.status = 401
              /\ req.nextCalls = 0
        /\ req.refreshSession \in {"error", "noSession"} =>
              /\ req.res.status = 401
              /\ req.nextCalls = 0
              /\ Did("clearCookie access_token")
              /\ Did("clearCookie refresh_token")

\* A request with an access token the provider refused and a refresh token
\* it accepted has been passed on with the new cookies set.
C25_Witness ==
    /\ Finished("requireAuth")
    /\ req.signedCookies.access_token # NoCookie
    /\ req.getUser = "error"
    /\ req.refreshSession = "session"
    /\ req.nextCalls = 1
    /\ Did("rotateCsrfToken")

(***************************************************************************)
(* Properties of an unban racing the background sync.                      *)
(***************************************************************************)
\* ops[i] is an unban of id both of whose store calls were applied, ops[j]
\* a background reconciliation that has finished, and no ban was issued.
UnbanAndBackgroundDone(i, j, id) ==
    /\ ops[i].fn = "unbanIp"
    /\ ops[i].key = id
    /\ ops[i].result = "resolved"
    /\ ops[i].fast = "ok"
    /\ ops[i].durable = "ok"
    /\ ops[j].fn \in {"syncToDb", "restoreFromDb"}
    /\ ops[j].pc = "done"
    /\ \A k \in DOMAIN ops : ops[k].fn \notin BanFns

\* C26: a completed unban is never undone by background reconciliation.
\* Whatever the interleaving of unban(kind, id) with a running syncToDb or
\* restoreFromDb, once the unban has completed, the background operation
\* has finished and no ban of id was issued, id is in neither tier.
C26_UnbanNotUndone ==
    \A i, j \in DOMAIN ops : \A id \in BaseIps :
        UnbanAndBackgroundDone(i, j, id) =>
            /\ id \notin DOMAIN redis[REDIS_HASH_IPS]
            /\ id \notin DOMAIN db[TABLE_IPS]

(***************************************************************************)
(* Properties of the validation stage.                                     *)
(***************************************************************************)
\* Some signature of the given severity matches val.
FieldMatches(val, severity) ==
    \E n \in DOMAIN SECURITY_PATTERNS :
        /\ SECURITY_PATTERNS[n].severity = severity
        /\ \E i \in DOMAIN val : val[i] \in Words(SECURITY_PATTERNS[n].key)

\* C27: at the validation stage the client IP is banned only when a
\* validated field matches a CRITICAL-severity signature; a field whose
\* only match is of lower severity causes no ban and no CRITICAL handling.
C27_BanOnCriticalOnly ==
    (req.mw = "validate" /\ (req.banOp # 0 \/ req.malicious)) =>
        \/ FieldMatches(req.body.password, "CRITICAL")
        \/ FieldMatches(req.body.bio, "CRITICAL")

\* The values a path of k steps from the root of graph leads to.
RECURSIVE ReachableAt(_, _)
ReachableAt(graph, k) ==
    IF k = 0 THEN {graph.root}
    ELSE LET above == ReachableAt(graph, k - 1)
         IN  { graph.nodes[o.id][n].value :
                 <<o, n>> \in { <<p, m>> \in above \X (1..2) :
                                   /\ p.kind = "object"
                                   /\ m <= Len(graph.nodes[p.id]) } }

\* Some path from the root places a string the scanner flags at depth 5
\* or less.
MaliciousWithinCap(graph) ==
    \E k \in 0..5 : \E v \in ReachableAt(graph, k) :
        v.kind = "string" /\ Flagged(v.str)

\* C28: traversal completeness on arbitrary object graphs.  For every value
\* passed to deepScan, objects referred to from several places or in a ring
\* included, if a malicious string can be reached from the root along a
\* path that places it at depth 5 or less, deepScan returns hasThreats
\* true.  (Stated for values all of whose property names are non-empty.)
C28_TraversalComplete ==
    ( /\ deep.pc = "done"
      /\ deep.graph.shape \in {"chain", "cycle", "shared"}
      /\ deep.graph.key # <<>>
      /\ MaliciousWithinCap(deep.graph) ) => deep.result.hasThreats

\* C29: deepScan never runs the pattern rules on a string longer than
\* 10000 characters, be it a value or the name of a property: every such
\* string is classified PAYLOAD_TOO_LARGE without pattern matching.
C29_NoPatternOnOversized ==
    /\ \A text \in deep.tested : text.length <= 10000
    /\ (deep.pc = "done" /\ deep.graph.shape = "longKey") =>
          /\ deep.result.hasThreats
          /\ deep.result.threats[1].type = "PAYLOAD_TOO_LARGE"

(***************************************************************************)
(* Properties of the deep-scanning security middleware.                    *)
(***************************************************************************)
\* The request went through the deep-scanning middleware, its User-Agent
\* was let through, and its body holds `value` d object levels below the
\* body root.
DeepScanned(d, value) ==
    /\ req.mw = "securityMiddlewareDeep"
    /\ req.pc = "done"
    /\ ~(~req.check.isSafe /\ req.check.action = "BLOCK")
    /\ deep.graph.shape = "request"
    /\ deep.graph.depth = d
    /\ deep.graph.leaf = value

\* C30: a malicious string stored five object levels below the body root
\* is detected by the deep scan of {body, query, params}: the request gets
\* the honeypot 200 response and a threat of type SQL_INJECTION or
\* SQL_LOGIC is logged.
C30_NestedPayloadDetected ==
    DeepScanned(5, JsString(SqlLogic)) =>
        /\ req.res.sent
        /\ req.res.status = 200
        /\ req.res.slug = "OPERATION_SUCCESS"
        /\ req.nextCalls = 0
        /\ req.threatLog # <<>>
        /\ req.threatLog[1].event = "MALICIOUS_PAYLOAD_DETECTED"
        /\ \E n \in DOMAIN req.threatLog[1].threats :
               req.threatLog[1].threats[n].type
                   \in {"SQL_INJECTION", "SQL_LOGIC"}

(***************************************************************************)
(* Properties of the cluster and of a worker's start.                      *)
(***************************************************************************)
Restoring(w) == cluster.workers[w].pc = "restoreFromDb"

\* C31: bulk loads are mutually exclusive: no two workers of the cluster
\* are inside restoreFromDb at the same time.
C31_RestoreExclusive ==
    \A v, w \in Workers : (Restoring(v) /\ Restoring(w)) => v = w

\* C32: a worker whose connection test found the durable store reachable
\* listens only after its restoreFromDb has run to completion.
C32_RestoreBeforeListen ==
    \A w \in Workers :
        (cluster.workers[w].pc = "listening"
            /\ cluster.workers[w].dbConnected = "yes")
        => cluster.workers[w].restore \in RestoreOutcomes

C32_Witness ==
    \E w \in Workers :
        /\ cluster.workers[w].pc = "listening"
        /\ cluster.workers[w].dbConnected = "yes"
        /\ cluster.workers[w].restore = "complete"

\* C33: outside production a worker whose connection test failed, or whose
\* bulk read of the ban tables failed, never listens; in production a
\* worker whose connection test failed goes on to listen.
C33_StartupPosture ==
    \A w \in Workers :
        /\ (cluster.env # "production"
               /\ (cluster.workers[w].dbConnected = "no"
                      \/ cluster.workers[w].restore = "failed"))
           => cluster.workers[w].pc # "listening"
        /\ (cluster.env = "production"
               /\ cluster.workers[w].dbConnected = "no")
           => cluster.workers[w].pc \in {"listening", "exited"}

\* C35: when a worker has sent READY, its startup sequence was over and
\* its server was listening at the moment it sent it.
C35_ReadyWhenInitialized ==
    \A w \in Workers :
        cluster.workers[w].ready # "no"
        => cluster.workers[w].readyAt = "listening"

\* C37: the n-th worker exit forks a replacement if and only if n is at
\* most 10; the 11th makes the primary exit with code 1 and forks nothing;
\* replacements are forked by exits only, so at most 10 are ever forked.
C37_CrashLoopProtection ==
    [][ /\ cluster'.forks # cluster.forks
           => cluster'.restartCount # cluster.restartCount
        /\ cluster'.restartCount # cluster.restartCount
           => /\ cluster'.restartCount = cluster.restartCount + 1
              /\ (cluster'.forks = cluster.forks + 1)
                     <=> cluster'.restartCount <= 10
              /\ cluster'.restartCount <= 10
                     => cluster'.primary = "running"
              /\ cluster'.restartCount > 10
                     => /\ cluster'.restartCount = 11
                        /\ cluster'.forks = cluster.forks
                        /\ cluster'.primary = "process.exit(1)"
              /\ cluster'.forks <= 10 ]_vars

C37_Witness ==
    /\ cluster.restartCount = 11
    /\ cluster.forks = 10
    /\ cluster.primary = "process.exit(1)"

\* The loop of spawnWorkers is over and every slot holds a live worker.
AllStarted ==
    /\ cluster.i = desiredWorkers
    /\ \A w \in Workers : Alive(w)

\* C36: as long as no more than 10 worker exits have occurred, the cluster
\* ends up, and stays, at full size: the spawn loop has completed and
\* desiredWorkers workers are alive.
C36_SelfHealing ==
    <>[](cluster.restartCount <= MAX_RESTARTS => AllStarted)

\* C34: a worker that received SIGTERM and shut down (exit code 0) did
\* not exit before syncToDb had run to completion.
C34_BackupBeforeExit ==
    \A w \in Workers :
        (cluster.workers[w].pc = "exited"
            /\ cluster.workers[w].signal = "SIGTERM"
            /\ cluster.workers[w].code = 0)
        => cluster.workers[w].shutdown \in {"quit", "done"}

(***************************************************************************)
(* Properties of the reconciliation of the two tiers.                      *)
(***************************************************************************)
\* The call with index i takes the step.
StepOf(i) == i \in DOMAIN ops' /\ (i \notin DOMAIN ops \/ ops'[i] # ops[i])

\* No identity of the store is missing after the step.
Keeps(before, after) ==
    \A h \in DOMAIN before : DOMAIN before[h] \subseteq DOMAIN after[h]

\* C39: a step of restoreFromDb keeps every entry of the fast tier and
\* changes nothing in the durable tier; a step of syncToDb keeps every
\* durable row and changes nothing in the fast tier; a step that removes an
\* identity from either tier is a step of an unban operation.
C39_AdditiveReconciliation ==
    [][ /\ \A i \in DOMAIN ops' :
               (StepOf(i) /\ ops'[i].fn = "restoreFromDb")
               => (db' = db /\ Keeps(redis, redis'))
        /\ \A i \in DOMAIN ops' :
               (StepOf(i) /\ ops'[i].fn = "syncToDb")
               => (redis' = redis /\ Keeps(db, db'))
        /\ ~(Keeps(redis, redis') /\ Keeps(db, db'))
               => \E i \in DOMAIN ops' :
                      StepOf(i) /\ ops'[i].fn \in UnbanFns ]_vars

\* restoreFromDb has written the fast tier, which still holds an IP banned
\* before that has no durable row.
C39_Witness ==
    \E i, j \in DOMAIN ops :
        /\ j < i
        /\ ops[j].fn = "banIp"
        /\ ops[i].fn = "restoreFromDb"
        /\ ops[i].fast = "ok"
        /\ ops[j].key \in DOMAIN redis[REDIS_HASH_IPS]
        /\ ops[j].key \notin DOMAIN db[TABLE_IPS]

(***************************************************************************)
(* Properties of the statistics sync.                                      *)
(***************************************************************************)
\* Worker w is between acquiring the lock and releasing it.
InSection(w) == stats.pc[w] \notin {"idle", "returned"}

\* C40: the lock of syncToLocal gives mutual exclusion: no two workers are
\* between acquiring 'lock:sync_requests' and releasing it at once.
C40_SyncLockExclusive ==
    \A v, w \in Workers : (InSection(v) /\ InSection(w)) => v = w

====
